---- MODULE Spec2Model ----
(***************************************************************************)
(* The four scraping pipelines of app/scrapers (EMA, FDA, PMDA, WHO) as    *)
(* one state machine.  A behaviour fixes a source, the content the source  *)
(* serves (its listing page; the detail pages are the fixture Page) and    *)
(* the clock reading `now`, and then runs the source's entry point once    *)
(* per lookback window.  Every outbound request and every time.sleep of a  *)
(* run is appended to `trace`, every emitted record to `output`.           *)
(*                                                                         *)
(* Dates are whole days counted from 2024-01-01 = 0 (2024-03-01 = 60,      *)
(* 2024-03-04 = 63, 2024-03-05 = 64, 2024-03-08 = 67, 2024-04-01 = 91).    *)
(* Sleeps are in tenths of a second.  Text is a sequence of one-character  *)
(* strings.  Python's None is the empty tuple and a present value x is     *)
(* the one-element tuple <<x>>.                                            *)
(*                                                                         *)
(* `engine` tells whether the headless browser can be started, `wait` how  *)
(* the bounded wait for the listing's container element ends; `result`     *)
(* tells how the caller's invocation ended ("returned" or "raised"),       *)
(* `driver` and `quits` follow the browser of the running invocation.      *)
(*                                                                         *)
(* `roundtrip` belongs to the second specification, DateSpec, which        *)
(* applies WHO's date parser to formatted dates; it is idle in Spec.       *)
(***************************************************************************)
EXTENDS Integers, Sequences, FiniteSets, TLC

VARIABLES source, now, listing_status, listing, engine, wait, pc, days_back,
          cands, i, output, trace, processed, ran, retained, result, driver,
          quits, roundtrip

vars == <<source, now, listing_status, listing, engine, wait, pc, days_back,
          cands, i, output, trace, processed, ran, retained, result, driver,
          quits, roundtrip>>

\* ------------------------------------------------------------------ bounds
\* Longest listing page drawn freely from the item set.
MaxLen == 2
\* Longest freely drawn part of a listing that starts with the filler block.
MaxTail == 1
\* Number of filler items in front of a long listing.
PadLen == 20

\* --------------------------------------------------------------- constants
\* config.py: MAX_ARTICLES_TO_PROCESS = 20
MAX_ARTICLES_TO_PROCESS == 20
\* config.py: SLEEP_BETWEEN_REQUESTS = 1.5 seconds, in tenths of a second
SLEEP_BETWEEN_REQUESTS == 15
\* config.py: FDA_CRAWL_DELAY = 30 seconds, in tenths of a second
FDA_CRAWL_DELAY == 300
\* time.sleep(3) after the rendered listing appeared, in tenths of a second
JS_SETTLE_SLEEP == 30

Sources == {"EMA", "FDA", "PMDA", "WHO"}

\* The clock readings of a run: 2024-03-05, 2024-03-08, 2024-04-01.
Nows == {64, 67, 91}
\* The lookback windows (days_back) a caller asks for.
Days == {1, 7}

None == <<>>
Some(x) == <<x>>

\* -------------------------------------------------------------------- text
\* The lower-case letter of every upper-case letter.
LowerOf ==
  [c \in {"A","B","C","D","E","F","G","H","I","J","K","L","M",
          "N","O","P","Q","R","S","T","U","V","W","X","Y","Z"} |->
     CASE c = "A" -> "a" [] c = "B" -> "b" [] c = "C" -> "c" [] c = "D" -> "d"
       [] c = "E" -> "e" [] c = "F" -> "f" [] c = "G" -> "g" [] c = "H" -> "h"
       [] c = "I" -> "i" [] c = "J" -> "j" [] c = "K" -> "k" [] c = "L" -> "l"
       [] c = "M" -> "m" [] c = "N" -> "n" [] c = "O" -> "o" [] c = "P" -> "p"
       [] c = "Q" -> "q" [] c = "R" -> "r" [] c = "S" -> "s" [] c = "T" -> "t"
       [] c = "U" -> "u" [] c = "V" -> "v" [] c = "W" -> "w" [] c = "X" -> "x"
       [] c = "Y" -> "y" [] c = "Z" -> "z"]

\* str.lower() on one character
LowerChar(c) == IF c \in DOMAIN LowerOf THEN LowerOf[c] ELSE c

\* str.lower()
lower(s) == [k \in 1..Len(s) |-> LowerChar(s[k])]

\* Python's `phrase in text`
Contains(text, phrase) ==
  \E k \in 0..(Len(text) - Len(phrase)) :
     \A j \in 1..Len(phrase) : text[k + j] = phrase[j]

\* The phrases the title extractors of FDA, PMDA and WHO reject.
ErrorPhrases ==
  { <<"p","a","g","e"," ","n","o","t"," ","f","o","u","n","d">>,
    <<"n","o","t"," ","a","v","a","i","l","a","b","l","e">>,
    <<"e","r","r","o","r">>,
    <<"4","0","4">> }

\* any(phrase in title.lower() for phrase in [...])
HasErrorPhrase(title) ==
  LET lowered == lower(title) IN
  \E phrase \in ErrorPhrases : Contains(lowered, phrase)

\* ------------------------------------------------------------- calendar
\* A datetime is a whole number of days, 2024-01-01 being day 0.  The
\* proleptic Gregorian calendar of datetime relates it to year, month, day.
IsLeap(y) == (y % 4 = 0 /\ y % 100 # 0) \/ y % 400 = 0

DaysInYear(y) == IF IsLeap(y) THEN 366 ELSE 365

DaysInMonth(y, m) ==
  IF m = 2 THEN (IF IsLeap(y) THEN 29 ELSE 28)
  ELSE IF m \in {4, 6, 9, 11} THEN 30 ELSE 31

RECURSIVE DaysBeforeYear(_)
DaysBeforeYear(y) ==
  IF y = 2024 THEN 0
  ELSE IF y > 2024 THEN DaysBeforeYear(y - 1) + DaysInYear(y - 1)
  ELSE DaysBeforeYear(y + 1) - DaysInYear(y)

RECURSIVE DaysBeforeMonth(_, _)
DaysBeforeMonth(y, m) ==
  IF m = 1 THEN 0 ELSE DaysBeforeMonth(y, m - 1) + DaysInMonth(y, m - 1)

\* datetime(y, m, d)
DayOf(y, m, d) == DaysBeforeYear(y) + DaysBeforeMonth(y, m) + d - 1

RECURSIVE YearOf(_, _)
YearOf(n, y) ==
  IF n < DaysBeforeYear(y) THEN YearOf(n, y - 1)
  ELSE IF n >= DaysBeforeYear(y + 1) THEN YearOf(n, y + 1)
  ELSE y

RECURSIVE MonthOf(_, _, _)
MonthOf(n, y, m) ==
  IF n >= DayOf(y, m, 1) + DaysInMonth(y, m) THEN MonthOf(n, y, m + 1) ELSE m

\* .year, .month, .day of a datetime
DateOf(n) ==
  LET y == YearOf(n, 2024)
      m == MonthOf(n, y, 1)
  IN [year |-> y, month |-> m, day |-> n - DayOf(y, m, 1) + 1]

Digits == <<"0", "1", "2", "3", "4", "5", "6", "7", "8", "9">>

\* '%02d' and '%04d'
Pad2(n) == <<Digits[((n \div 10) % 10) + 1], Digits[(n % 10) + 1]>>
Pad4(n) == Pad2(n \div 100) \o Pad2(n % 100)

\* datetime.isoformat(), date part: YYYY-MM-DD
isoformat(n) ==
  LET dt == DateOf(n) IN
  Pad4(dt.year) \o <<"-">> \o Pad2(dt.month) \o <<"-">> \o Pad2(dt.day)

\* ---------------------------------------------------------------- fixtures
T_valid    == <<"N","e","w"," ","g","u","i","d","a","n","c","e">>
T_draft    == <<"D","r","a","f","t"," ","g","u","i","d","e","l","i","n","e">>
T_notfound == <<"P","a","g","e"," ","N","o","t"," ","F","o","u","n","d">>
T_404      == <<"E","r","r","o","r"," ","4","0","4",":"," ","n","o"," ","p","a","g","e">>
T_site     == <<"A","g","e","n","c","y"," ","w","e","b","s","i","t","e">>
T_consult  == <<"P","u","b","l","i","c"," ","c","o","n","s","u","l","t","a","t","i","o","n"," ","o","p","e","n","e","d">>

\* Link texts of attachments.  L_long1 and L_long2 are 52 characters long
\* and differ in their last character only.
L_guideline == <<"G","u","i","d","e","l","i","n","e">>
L_annex     == <<"A","n","n","e","x">>
L_qa        == <<"Q","u","e","s","t","i","o","n","s"," ","a","n","d"," ","a","n","s","w","e","r","s">>
L_path      == <<"O","v","e","r","v","i","e","w","/","s","u","m","m","a","r","y">>
L_long1     == <<"G","u","i","d","e","l","i","n","e"," ","o","n"," ","t","h","e"," ","c","l","i","n","i","c","a","l"," ","e","v","a","l","u","a","t","i","o","n"," ","o","f"," ","m","e","d","i","c","i","n","e","s"," ","A","1">>
L_long2     == <<"G","u","i","d","e","l","i","n","e"," ","o","n"," ","t","h","e"," ","c","l","i","n","i","c","a","l"," ","e","v","a","l","u","a","t","i","o","n"," ","o","f"," ","m","e","d","i","c","i","n","e","s"," ","A","2">>

\* URLs of the filler items of a long listing (distinct, so that the
\* de-duplicating locators keep all of them).
PadURLs == << "p01","p02","p03","p04","p05","p06","p07","p08","p09","p10",
              "p11","p12","p13","p14","p15","p16","p17","p18","p19","p20",
              "p21","p22" >>

\* fda_scraper_selenium.py: category_urls and recent_guidance_urls
category_urls == << "cat1", "cat2", "cat3", "cat4" >>
recent_guidance_urls == << "rec1", "rec2", "rec3", "rec4" >>

\* The detail pages a listing can link to:
\*   "a"  a dated article (2024-03-01)
\*   "n"  an article on which no date strategy finds a date
\*   "g"  an article whose title triggers the attachment harvester
\*   "e"  an error page announced by its heading
\*   "t"  an error page with no heading, announced by its <title> only
\*   "f"  a page whose fetch fails (timeout, non-2xx, connection error)
\*   "h"  a second article whose title triggers the attachment harvester
ItemURLs == {"a", "n", "g", "e", "t", "f", "h"}

\* Further pages anchors of a listing can point to (all of them valid
\* articles); what tells them apart is the href of the anchor, see EMA_href
\* and FDA_href:
\*   "x"  a page outside the news / guidance sections
\*   "y"  a PDF file in a guidance section
\*   "v"  a guidance page of a product centre
\*   "c"  a page of a guidance-and-compliance section
LinkURLs == {"x", "y", "v", "c"}

RangeOf(s) == {s[k] : k \in 1..Len(s)}

URLs == ItemURLs \cup LinkURLs \cup RangeOf(PadURLs) \cup RangeOf(category_urls)
          \cup RangeOf(recent_guidance_urls)

\* Dates that occur in the text of detail pages.
D_2021_05_01 == DayOf(2021, 5, 1)
D_2024_03_04 == DayOf(2024, 3, 4)
D_2024_12_25 == DayOf(2024, 12, 25)
D_2025_01_15 == DayOf(2025, 1, 15)

\* The document served for a URL.  heading / title_tag / meta are the texts
\* of the first element matched by the heading selectors, by <title> and by
\* the meta title selectors (None when there is no such element); date is
\* what the date strategies find before the "current time" fallback; docs
\* are the .pdf / download links of the "Related documents" list with their
\* link text and the outcome of their download: "200", another status
\* ("404"), "raise" (session.get raises) or "unsaved" (the answer is a 200
\* and writing the file raises).
Page(u) ==
  CASE u = "a" -> [status |-> "ok", heading |-> Some(T_valid), title_tag |-> Some(T_site),
                   meta |-> None, date |-> Some(60), docs |-> <<>>, text_dates |-> <<>>]
    [] u = "n" -> [status |-> "ok", heading |-> Some(T_valid), title_tag |-> Some(T_site),
                   meta |-> None, date |-> None, docs |-> <<>>, text_dates |-> <<>>]
    [] u = "g" -> [status |-> "ok", heading |-> Some(T_draft), title_tag |-> Some(T_site),
                   meta |-> None, date |-> Some(60),
                   docs |-> << [url |-> "d1", title |-> L_guideline, result |-> "200"],
                               [url |-> "d2", title |-> L_annex, result |-> "raise"],
                               [url |-> "d3", title |-> L_qa, result |-> "404"],
                               [url |-> "d4", title |-> L_path, result |-> "unsaved"],
                               [url |-> "d5", title |-> L_long1, result |-> "200"] >>,
                   text_dates |-> <<>>]
    [] u = "h" -> [status |-> "ok", heading |-> Some(T_consult), title_tag |-> Some(T_site),
                   meta |-> None, date |-> Some(60),
                   docs |-> << [url |-> "d6", title |-> L_guideline, result |-> "200"],
                               [url |-> "d7", title |-> L_long2, result |-> "200"] >>,
                   text_dates |-> <<>>]
    [] u = "e" -> [status |-> "ok", heading |-> Some(T_notfound), title_tag |-> Some(T_site),
                   meta |-> None, date |-> None, docs |-> <<>>, text_dates |-> <<>>]
    [] u = "t" -> [status |-> "ok", heading |-> None, title_tag |-> Some(T_404),
                   meta |-> None, date |-> None, docs |-> <<>>, text_dates |-> <<>>]
    [] u = "f" -> [status |-> "fail", heading |-> None, title_tag |-> None,
                   meta |-> None, date |-> None, docs |-> <<>>, text_dates |-> <<>>]
    [] u \in {"rec3", "rec4"} ->
                  [status |-> "fail", heading |-> None, title_tag |-> None,
                   meta |-> None, date |-> None, docs |-> <<>>, text_dates |-> <<>>]
    [] u = "v" -> [status |-> "ok", heading |-> Some(T_valid), title_tag |-> Some(T_site),
                   meta |-> Some(T_valid), date |-> None, docs |-> <<>>,
                   text_dates |-> <<D_2021_05_01, D_2024_12_25>>]
    [] u = "c" -> [status |-> "ok", heading |-> Some(T_valid), title_tag |-> Some(T_site),
                   meta |-> Some(T_valid), date |-> None, docs |-> <<>>,
                   text_dates |-> <<D_2025_01_15, D_2024_03_04>>]
    [] u = "p06" ->
                  [status |-> "ok", heading |-> Some(T_valid), title_tag |-> Some(T_site),
                   meta |-> Some(T_valid), date |-> None, docs |-> <<>>,
                   text_dates |-> <<D_2024_12_25>>]
    [] OTHER   -> [status |-> "ok", heading |-> Some(T_valid), title_tag |-> Some(T_site),
                   meta |-> Some(T_valid), date |-> None, docs |-> <<>>, text_dates |-> <<>>]

\* The status the synchronous HEAD probe of _check_url_exists sees
\* ("raise": execute_script raised).
ProbeStatus(u) ==
  CASE u = "rec1" -> "200"
    [] u = "rec2" -> "200"
    [] u = "rec3" -> "404"
    [] OTHER      -> "raise"

\* The date texts a listing item can carry: "absent" (the item has no date
\* element), "n/a" (a text no parser accepts) and "2024/03/04", which
\* stands for 2024-03-04 written in the notation of the source's listing
\* (for PMDA the year/month/day-character notation).
DateTexts == {"absent", "n/a", "2024/03/04"}

\* WHO's and PMDA's marker for an item without a date (the source writes it
\* in Japanese).
date_unknown == "date-unknown"

\* PMDA's categories: "recruit" and "procure" stand for the two categories
\* the locator filters out, "other" for the category of its fallback scan.
FilteredCategories == {"recruit", "procure"}

\* dateutil.parser.parse / strptime on the date texts of the listing
\* fixture: the day, or None when parsing raises.
ParseListingDate(date_text) ==
  IF date_text = "2024/03/04" THEN Some(63) ELSE None

\* ----------------------------------------------------------- date texts
\* A date text is a sequence of characters; a month name and each of the
\* year / month / day characters of the Japanese notation ("nen", "gatsu",
\* "nichi") are one element.
MonthNames == <<"January", "February", "March", "April", "May", "June", "July",
                "August", "September", "October", "November", "December">>

\* WHOScraper._parse_date_from_text: date_formats, in the order tried.  A
\* format is the sequence of its directives and literal characters.
date_formats ==
  << <<"%Y", "-", "%m", "-", "%d">>,
     <<"%Y", "/", "%m", "/", "%d">>,
     <<"%d", "/", "%m", "/", "%Y">>,
     <<"%m", "/", "%d", "/", "%Y">>,
     <<"%d", "-", "%m", "-", "%Y">>,
     <<"%m", "-", "%d", "-", "%Y">>,
     <<"%B", " ", "%d", ",", " ", "%Y">>,
     <<"%d", " ", "%B", " ", "%Y">>,
     <<"%Y", "nen", "%m", "gatsu", "%d", "nichi">> >>

IsDigit(c) == \E k \in 1..10 : Digits[k] = c

DigitValue(c) == (CHOOSE k \in 1..10 : Digits[k] = c) - 1

\* int() of a text of digits
RECURSIVE Number(_)
Number(digits) ==
  IF digits = <<>> THEN 0
  ELSE 10 * Number(SubSeq(digits, 1, Len(digits) - 1)) + DigitValue(digits[Len(digits)])

\* datetime.strftime: %Y as four digits, %m and %d as two digits, %B as
\* the month name, every other element of the format as it is.
RECURSIVE strftime(_, _)
strftime(dt, fmt) ==
  IF fmt = <<>> THEN <<>>
  ELSE LET f == Head(fmt) IN
       (CASE f = "%Y" -> Pad4(dt.year)
          [] f = "%m" -> Pad2(dt.month)
          [] f = "%d" -> Pad2(dt.day)
          [] f = "%B" -> <<MonthNames[dt.month]>>
          [] OTHER    -> <<f>>)
         \o strftime(dt, Tail(fmt))

\* The two-digit alternatives of the patterns strptime uses:
\* %m: 1[0-2]|0[1-9]    %d: 3[01]|[12]\d|0[1-9]
TwoDigits(f, a, b) ==
  /\ IsDigit(a) /\ IsDigit(b)
  /\ IF f = "%m"
     THEN (a = "1" /\ DigitValue(b) <= 2) \/ (a = "0" /\ b # "0")
     ELSE (a = "3" /\ DigitValue(b) <= 1) \/ a \in {"1", "2"} \/ (a = "0" /\ b # "0")

\* The one-digit alternative of %m and %d: [1-9]
OneDigit(a) == IsDigit(a) /\ a # "0"

\* The match of the whole text against the pattern of a format: the fields
\* found, or None.  %Y takes four digits; %m and %d take two digits when
\* the rest of the text then matches, else one; %B takes a month name.
RECURSIVE strptime_match(_, _, _)
strptime_match(text, fmt, found) ==
  IF fmt = <<>> THEN (IF text = <<>> THEN Some(found) ELSE None)
  ELSE IF text = <<>> THEN None
  ELSE LET f == Head(fmt)
           rest(n) == SubSeq(text, n + 1, Len(text))
           field(n) == Number(SubSeq(text, 1, n))
           with(n) == IF f = "%m" THEN [found EXCEPT !.month = field(n)]
                      ELSE [found EXCEPT !.day = field(n)]
       IN CASE f = "%Y" ->
                 IF Len(text) >= 4 /\ \A k \in 1..4 : IsDigit(text[k])
                 THEN strptime_match(rest(4), Tail(fmt), [found EXCEPT !.year = field(4)])
                 ELSE None
            [] f \in {"%m", "%d"} ->
                 LET two == IF Len(text) >= 2 /\ TwoDigits(f, text[1], text[2])
                            THEN strptime_match(rest(2), Tail(fmt), with(2))
                            ELSE None
                 IN IF two # None THEN two
                    ELSE IF OneDigit(text[1])
                    THEN strptime_match(rest(1), Tail(fmt), with(1))
                    ELSE None
            [] f = "%B" ->
                 IF \E m \in 1..12 : MonthNames[m] = text[1]
                 THEN strptime_match(rest(1), Tail(fmt),
                        [found EXCEPT !.month = CHOOSE m \in 1..12 : MonthNames[m] = text[1]])
                 ELSE None
            [] OTHER ->
                 IF text[1] = f THEN strptime_match(rest(1), Tail(fmt), found) ELSE None

\* datetime.strptime(date_text, fmt): the datetime, or None for ValueError
\* (the text does not match the format, or the day is out of range for
\* the month).
strptime(date_text, fmt) ==
  LET m == strptime_match(date_text, fmt, [year |-> 1900, month |-> 1, day |-> 1]) IN
  IF m = None THEN None
  ELSE IF m[1].day > DaysInMonth(m[1].year, m[1].month) THEN None
  ELSE Some(DayOf(m[1].year, m[1].month, m[1].day))

\* date_parser.parse(date_text) for the texts that reach it: a text
\* without a digit raises, which _parse_date_from_text turns into None.
dateutil_parse(date_text) == None

\* for fmt in date_formats: the first format that parses the text decides
RECURSIVE first_format(_, _)
first_format(date_text, formats) ==
  IF formats = <<>> THEN dateutil_parse(date_text)
  ELSE IF strptime(date_text, Head(formats)) # None
       THEN strptime(date_text, Head(formats))
       ELSE first_format(date_text, Tail(formats))

\* The marker of an item without a date, as a date text.
unknown_text == <<date_unknown>>

\* WHOScraper._parse_date_from_text on a text: None for the empty text
\* and for the unknown-date marker, else the explicit formats in order,
\* else dateutil.
WHO_parse_date_from_text(date_text) ==
  IF date_text = <<>> \/ date_text = unknown_text THEN None
  ELSE first_format(date_text, date_formats)

\* ----------------------------------------------------------- link patterns
\* The href of the anchor that points to a URL, on EMA's listing.
EMA_href(u) ==
  IF u = "x" THEN <<"/","e","n","/","a","b","o","u","t","-","u","s","/","c","o","n","t","a","c","t","s">>
  ELSE <<"/","e","n","/","n","e","w","s","/","i","t","e","m">>

\* The href of the anchor that points to a URL, on FDA's listing.
FDA_href(u) ==
  CASE u = "x" -> <<"/","a","b","o","u","t","-","f","d","a","/","c","o","n","t","a","c","t","-","f","d","a">>
    [] u = "y" -> <<"/","v","a","c","c","i","n","e","s","/","g","u","i","d","a","n","c","e","-","d","o","c","u","m","e","n","t","s","/","i","t","e","m",".","p","d","f">>
    [] u = "v" -> <<"/","v","a","c","c","i","n","e","s","/","g","u","i","d","a","n","c","e","-","d","o","c","u","m","e","n","t","s","/","i","t","e","m">>
    [] u = "c" -> <<"/","d","r","u","g","s","/","g","u","i","d","a","n","c","e","-","c","o","m","p","l","i","a","n","c","e","-","r","e","g","u","l","a","t","o","r","y","-","i","n","f","o","r","m","a","t","i","o","n","/","i","t","e","m">>
    [] OTHER   -> <<"/","r","e","g","u","l","a","t","o","r","y","-","i","n","f","o","r","m","a","t","i","o","n","/","s","e","a","r","c","h","-","f","d","a","-","g","u","i","d","a","n","c","e","-","d","o","c","u","m","e","n","t","s","/","i","t","e","m">>

\* str.endswith / a pattern anchored with $
EndsWith(text, suffix) ==
  /\ Len(text) >= Len(suffix)
  /\ \A j \in 1..Len(suffix) : text[Len(text) - Len(suffix) + j] = suffix[j]

\* EMANewsScraper._get_news_urls: '/en/news/' in href
EMA_is_news_href ==
  [u \in URLs |-> Contains(EMA_href(u), <<"/","e","n","/","n","e","w","s","/">>)]

\* _is_guidance_document_url: guidance_patterns
guidance_patterns ==
  { <<"/","s","e","a","r","c","h","-","f","d","a","-","g","u","i","d","a","n","c","e","-","d","o","c","u","m","e","n","t","s","/">>,
    <<"/","g","u","i","d","a","n","c","e","-","d","o","c","u","m","e","n","t","s","/">>,
    <<"/","r","e","g","u","l","a","t","o","r","y","-","i","n","f","o","r","m","a","t","i","o","n","/","s","e","a","r","c","h","-","f","d","a","-","g","u","i","d","a","n","c","e","-","d","o","c","u","m","e","n","t","s","/">>,
    <<"/","d","r","u","g","s","/","g","u","i","d","a","n","c","e","-","c","o","m","p","l","i","a","n","c","e","-","r","e","g","u","l","a","t","o","r","y","-","i","n","f","o","r","m","a","t","i","o","n","/">>,
    <<"/","m","e","d","i","c","a","l","-","d","e","v","i","c","e","s","/","d","e","v","i","c","e","-","r","e","g","u","l","a","t","i","o","n","-","a","n","d","-","g","u","i","d","a","n","c","e","/">>,
    <<"/","f","o","o","d","/","g","u","i","d","a","n","c","e","-","d","o","c","u","m","e","n","t","s","-","r","e","g","u","l","a","t","o","r","y","-","i","n","f","o","r","m","a","t","i","o","n","/">>,
    <<"/","v","a","c","c","i","n","e","s","/","g","u","i","d","a","n","c","e","-","d","o","c","u","m","e","n","t","s","/">>,
    <<"/","t","o","b","a","c","c","o","-","p","r","o","d","u","c","t","s","/","g","u","i","d","a","n","c","e","-","d","o","c","u","m","e","n","t","s","/">>,
    <<"/","r","a","d","i","a","t","i","o","n","-","e","m","i","t","t","i","n","g","-","p","r","o","d","u","c","t","s","/","g","u","i","d","a","n","c","e","-","d","o","c","u","m","e","n","t","s","/">>,
    <<"/","b","i","o","l","o","g","i","c","s","/","g","u","i","d","a","n","c","e","-","d","o","c","u","m","e","n","t","s","/">>,
    <<"/","a","n","i","m","a","l","-","v","e","t","e","r","i","n","a","r","y","/","g","u","i","d","a","n","c","e","-","d","o","c","u","m","e","n","t","s","/">> }

\* _is_guidance_document_url: the exclude_patterns that match anywhere
exclude_patterns ==
  { <<"/","a","p","o","l","o","g","y","_","o","b","j","e","c","t","s","/">>,
    <<"/","u","s","e","r","/">>,
    <<"/","a","d","m","i","n","/">>,
    <<"/","c","o","m","m","e","n","t","/">>,
    <<"/","f","i","l","t","e","r","/">>,
    <<"/","n","o","d","e","/">>,
    <<"/","f","i","l","e","/">>,
    <<"/","t","a","x","o","n","o","m","y","/">>,
    <<"j","a","v","a","s","c","r","i","p","t",":">>,
    <<"m","a","i","l","t","o",":">>,
    <<"/","m","e","d","i","a","/">>,
    <<"/","i","m","a","g","e","s","/">>,
    <<"/","c","s","s","/">>,
    <<"/","j","s","/">>,
    <<"/","s","i","t","e","s","/">>,
    <<"/","t","h","e","m","e","s","/">>,
    <<"/","m","o","d","u","l","e","s","/">>,
    <<"/","l","i","b","r","a","r","i","e","s","/">>,
    <<"/","c","o","r","e","/">>,
    <<"/","p","r","o","f","i","l","e","s","/">> }

\* _is_guidance_document_url: the exclude_patterns anchored at the end
exclude_patterns_at_end ==
  { <<".","p","d","f">>,
    <<"#">>,
    <<"/","c","o","n","t","a","c","t">>,
    <<"/","a","b","o","u","t">>,
    <<"/","n","e","w","s">> }

\* _is_guidance_document_url: the exclude_patterns anchored at both ends
exclude_patterns_whole ==
  { <<"/">>,
    <<"/","s","e","a","r","c","h">> }

\* FDAScraperSelenium._is_guidance_document_url, case-insensitively, for
\* the href of every URL
is_guidance_document_url ==
  [u \in URLs |->
     LET url == lower(FDA_href(u)) IN
     /\ url # <<>>
     /\ \E pattern \in guidance_patterns : Contains(url, pattern)
     /\ ~ \E pattern \in exclude_patterns : Contains(url, pattern)
     /\ ~ \E pattern \in exclude_patterns_at_end : EndsWith(url, pattern)
     /\ url \notin exclude_patterns_whole]

\* The selector of the result links of FDA's search page:
\* a[href*="/regulatory-information/search-fda-guidance-documents/"]
FDA_is_result_link ==
  [u \in URLs |-> Contains(FDA_href(u), <<"/","r","e","g","u","l","a","t","o","r","y","-","i","n","f","o","r","m","a","t","i","o","n","/","s","e","a","r","c","h","-","f","d","a","-","g","u","i","d","a","n","c","e","-","d","o","c","u","m","e","n","t","s","/">>)]

\* _get_guidance_urls: guidance_selectors.  Four of them test the href for
\* a text; the third is the class selector .lcds-section-nav__link, written
\* here as the empty text.
guidance_selectors ==
  << <<"/","g","u","i","d","a","n","c","e","-","d","o","c","u","m","e","n","t","s","/">>,
     <<"/","r","e","g","u","l","a","t","o","r","y","-","i","n","f","o","r","m","a","t","i","o","n","/">>,
     <<>>,
     <<"g","u","i","d","a","n","c","e">>,
     <<"d","o","c","u","m","e","n","t">> >>

\* Whether the href of a URL holds the text of guidance selector s.
FDA_href_selected ==
  [s \in 1..Len(guidance_selectors) |->
     [u \in URLs |-> guidance_selectors[s] # <<>>
                       /\ Contains(FDA_href(u), guidance_selectors[s])]]

\* soup.select(selector) for guidance selector s: the anchors it matches
FDA_select(s, page) ==
  SelectSeq(page, LAMBDA el : IF guidance_selectors[s] = <<>> THEN el.via = "nav"
                              ELSE FDA_href_selected[s][el.url])

\* config.py: NEWS_CARD_SELECTORS
NEWS_CARD_SELECTORS == << ".ecl-card", ".news-card", ".article-card", "[class*='card']" >>

\* The classes of the card elements of the fixture; "info-card" is matched
\* by the substring selector only.
CardClasses == {"ecl-card", "news-card", "article-card", "info-card"}

\* soup.select(selector) for a card selector: the elements it matches
EMA_select(selector, page) ==
  SelectSeq(page, LAMBDA el :
     CASE selector = ".ecl-card"     -> el.via = "ecl-card"
       [] selector = ".news-card"    -> el.via = "news-card"
       [] selector = ".article-card" -> el.via = "article-card"
       [] OTHER                      -> el.via \in CardClasses)

\* --------------------------------------------------------- trace events
Get(kind, u) == [op |-> "get", kind |-> kind, url |-> u, dur |-> 0]
Sleep(n)     == [op |-> "sleep", kind |-> "sleep", url |-> "", dur |-> n]
\* The start of one iteration of an item loop (no request, no sleep).
Item(u)      == [op |-> "item", kind |-> "item", url |-> u, dur |-> 0]

\* Python truthiness of an optional text: `if not title`
NotText(t) == t = None \/ t[1] = <<>>

\* Mutant of Min: the slice keeps the first candidate only.
Min_first(a, b) == IF a < 1 THEN a ELSE 1

Min(a, b) == IF a < b THEN a ELSE b

\* ------------------------------------------------------ field extractors
\* EMANewsScraper._extract_title: the text of the first element a title
\* selector matches, whatever it is; else the text of <title>.
EMA_extract_title(page) ==
  IF page.heading # None THEN page.heading
  ELSE IF page.title_tag # None THEN page.title_tag
  ELSE None

\* The selector loop shared by the title extractors of FDA, PMDA and WHO:
\* the first element whose text is longer than 10 decides: None when it
\* holds an error phrase, else that text.
RECURSIVE checked_title(_)
checked_title(elements) ==
  IF elements = <<>> THEN None
  ELSE LET el == Head(elements) IN
       IF el # None /\ el[1] # <<>> /\ Len(el[1]) > 10
       THEN IF HasErrorPhrase(el[1]) THEN None ELSE el
       ELSE checked_title(Tail(elements))

\* FDAScraperSelenium._extract_title: h1 selectors, then meta titles.
FDA_extract_title(page) == checked_title(<<page.heading, page.meta>>)

\* PMDAScraper._extract_title: h1 and title classes, <title>, meta titles.
PMDA_extract_title(page) == checked_title(<<page.heading, page.title_tag, page.meta>>)

\* WHOScraper._extract_title: the same selector list as PMDA.
WHO_extract_title(page) == checked_title(<<page.heading, page.title_tag, page.meta>>)

\* EMANewsScraper._extract_date: the first date element that parses, else
\* the current time.
EMA_extract_date(page, t) == IF page.date # None THEN page.date ELSE Some(t)

\* The regex scan of FDAScraperSelenium._extract_date over the text of the
\* document: the first match whose year is not after the current year and
\* not more than two years before it.
RECURSIVE FDA_regex_scan(_, _)
FDA_regex_scan(matches, t) ==
  IF matches = <<>> THEN None
  ELSE LET parsed_date == Head(matches) IN
       IF YearOf(parsed_date, 2024) <= YearOf(t, 2024)
          /\ YearOf(parsed_date, 2024) >= YearOf(t, 2024) - 2
       THEN Some(parsed_date)
       ELSE FDA_regex_scan(Tail(matches), t)

\* The regex scan of PMDAScraper._extract_date: the first match whose year
\* is not after the current year.
RECURSIVE PMDA_regex_scan(_, _)
PMDA_regex_scan(matches, t) ==
  IF matches = <<>> THEN None
  ELSE LET parsed_date == Head(matches) IN
       IF YearOf(parsed_date, 2024) <= YearOf(t, 2024)
       THEN Some(parsed_date)
       ELSE PMDA_regex_scan(Tail(matches), t)

\* The strategies of FDAScraperSelenium._extract_date before the fallback:
\* table cells and date selectors, then the regex scan.
FDA_found_date(page, t) ==
  IF page.date # None THEN page.date ELSE FDA_regex_scan(page.text_dates, t)

\* FDAScraperSelenium._extract_date: table cells, date selectors, the regex
\* scan, else the current time.
FDA_extract_date(page, t) ==
  IF FDA_found_date(page, t) # None THEN FDA_found_date(page, t) ELSE Some(t)

\* ----------------------------------------------------- content extraction
\* config.py
MAX_PARAGRAPHS_PER_ARTICLE == 3

\* The length a paragraph has to exceed: `len(text) > 50` in EMA and FDA,
\* `len(text) > 30` in PMDA and WHO.
EMA_min_length == 50
FDA_min_length == 50
PMDA_min_length == 30
WHO_min_length == 30

\* The text-line fallback of PMDA and WHO: the first three lines, cut to
\* 500 characters.
max_filtered_lines == 3
max_content_length == 500

\* A stripped text of the page: its length and the boilerplate phrase it
\* holds ("org": the sentence describing the organisation, "agency": the
\* full name of the agency, "about": the "about PMDA" label, "": none).
Txt(n) == [len |-> n, phrase |-> ""]
Boiler(n, phrase) == [len |-> n, phrase |-> phrase]

\* The body of the document served for a URL, as the content extractors
\* see it: sel lists, for every content selector of the source that
\* matches, in selector order, the elements it matches (for PMDA and WHO the
\* <p> elements inside the matched container); ps are all <p> elements of
\* the document; lines are the non-empty stripped lines of soup.get_text().
PageContent(u) ==
  CASE u = "a" -> [sel   |-> << <<Txt(10), Txt(80), Boiler(100, "org"), Txt(70)>> >>,
                   ps    |-> <<Txt(10), Txt(80), Boiler(100, "org"), Txt(70)>>,
                   lines |-> <<Txt(12), Txt(10), Txt(80), Boiler(100, "org"), Txt(70)>>]
    [] u = "n" -> [sel   |-> <<>>,
                   ps    |-> <<Txt(10), Txt(20), Txt(5)>>,
                   lines |-> <<Txt(12), Txt(10), Txt(20), Txt(5),
                               Txt(250), Boiler(90, "agency"), Txt(230), Txt(40)>>]
    [] u = "g" -> [sel   |-> << <<Txt(10), Txt(20)>> >>,
                   ps    |-> <<Txt(60), Txt(10), Txt(20)>>,
                   lines |-> <<Txt(15), Txt(60), Txt(10), Txt(20)>>]
    [] u = "h" -> [sel   |-> << <<Txt(51), Txt(50)>> >>,
                   ps    |-> <<Txt(51), Txt(50)>>,
                   lines |-> <<Txt(26), Txt(51), Txt(50)>>]
    [] u \in {"x", "y", "v", "c"} ->
                  [sel   |-> << <<Txt(20)>>, <<Txt(70), Txt(30), Txt(55)>> >>,
                   ps    |-> <<Txt(20), Txt(70)>>,
                   lines |-> <<Txt(12), Txt(20), Txt(70), Txt(30), Txt(55)>>]
    [] u = "p01" -> [sel   |-> <<>>,
                     ps    |-> <<Txt(31), Boiler(60, "about"), Txt(30), Txt(600)>>,
                     lines |-> <<Txt(12), Txt(31), Boiler(60, "about"), Txt(30), Txt(600)>>]
    [] u = "p02" -> [sel   |-> << <<Txt(10)>> >>,
                     ps    |-> <<Txt(10)>>,
                     lines |-> <<Txt(12), Txt(10), Txt(600), Txt(40)>>]
    [] u = "p03" -> [sel   |-> <<>>, ps |-> <<>>,
                     lines |-> <<Txt(12), Txt(250), Txt(248), Txt(40)>>]
    [] u = "p04" -> [sel   |-> <<>>, ps |-> <<>>,
                     lines |-> <<Txt(12), Txt(250), Txt(247), Txt(40)>>]
    [] u = "p05" -> [sel   |-> <<>>, ps |-> <<>>,
                     lines |-> <<Txt(12), Txt(250), Txt(246), Txt(40)>>]
    [] OTHER   -> [sel   |-> <<>>, ps |-> <<>>, lines |-> <<Txt(12)>>]

\* A content string: the sentinel, or the lengths of the parts that
\* split('\n\n') yields (<<>> for the empty string).
Sentinel == [sentinel |-> TRUE, parts |-> <<>>]
Joined(parts) == [sentinel |-> FALSE, parts |-> parts]

\* The lengths of the elements among the first `most` of a list whose text
\* is longer than `least` and holds none of the excluded phrases.
RECURSIVE qualifying(_, _, _, _)
qualifying(elements, most, least, excluded) ==
  IF elements = <<>> \/ most = 0 THEN <<>>
  ELSE LET el == Head(elements) IN
       (IF el.len > least /\ el.phrase \notin excluded THEN <<el.len>> ELSE <<>>)
         \o qualifying(Tail(elements), most - 1, least, excluded)

\* EMANewsScraper._extract_content: the first selector that matches decides
\* (`break`); when it keeps no paragraph, the first paragraphs of the
\* document; else the sentinel.
EMA_extract_content(soup) ==
  LET selected == IF soup.sel = <<>> THEN <<>>
                  ELSE qualifying(soup.sel[1], MAX_PARAGRAPHS_PER_ARTICLE,
                                  EMA_min_length, {})
      paragraphs == IF selected # <<>> THEN selected
                    ELSE qualifying(soup.ps, MAX_PARAGRAPHS_PER_ARTICLE,
                                    EMA_min_length, {})
  IN IF paragraphs # <<>> THEN Joined(paragraphs) ELSE Sentinel

\* The selector loop of FDAScraperSelenium._extract_content: the first
\* selector whose elements hold a long enough text decides.
RECURSIVE FDA_selected(_)
FDA_selected(sets) ==
  IF sets = <<>> THEN <<>>
  ELSE LET paragraphs == qualifying(Head(sets), Len(Head(sets)), FDA_min_length, {}) IN
       IF paragraphs # <<>> THEN paragraphs ELSE FDA_selected(Tail(sets))

\* FDAScraperSelenium._extract_content: no limit on the number of
\* paragraphs; all <p> of the document as the fallback; else the sentinel.
FDA_extract_content(soup) ==
  LET selected == FDA_selected(soup.sel)
      paragraphs == IF selected # <<>> THEN selected
                    ELSE qualifying(soup.ps, Len(soup.ps), FDA_min_length, {})
  IN IF paragraphs # <<>> THEN Joined(paragraphs) ELSE Sentinel

\* The first `most` qualifying lines (the scan stops at the third kept
\* line, not at the third line).
RECURSIVE filtered_lines(_, _, _, _)
filtered_lines(lines, most, least, excluded) ==
  IF lines = <<>> \/ most = 0 THEN <<>>
  ELSE LET line == Head(lines) IN
       IF line.len > least /\ line.phrase \notin excluded
       THEN <<line.len>> \o filtered_lines(Tail(lines), most - 1, least, excluded)
       ELSE filtered_lines(Tail(lines), most, least, excluded)

\* The length of '\n\n'.join(parts)
RECURSIVE joined_length(_)
joined_length(parts) ==
  IF parts = <<>> THEN 0
  ELSE IF Len(parts) = 1 THEN parts[1]
  ELSE parts[1] + 2 + joined_length(Tail(parts))

\* '\n\n'.join(parts)[:room] + "...", as the parts split('\n\n') yields:
\* the cut can fall inside a part, after one character of a separator
\* (the part then ends with "\n...") or right after a separator (the
\* three dots are then a part of their own).
RECURSIVE cut_with_dots(_, _)
cut_with_dots(parts, room) ==
  LET l == Head(parts) IN
  IF l >= room THEN <<room + 3>>
  ELSE IF room - l = 1 THEN <<l + 4>>
  ELSE IF room - l = 2 THEN <<l, 3>>
  ELSE <<l>> \o cut_with_dots(Tail(parts), room - l - 2)

\* content_text[:500] + "..." when the text is longer than 500
truncated(parts) ==
  IF joined_length(parts) > max_content_length
  THEN cut_with_dots(parts, max_content_length)
  ELSE parts

\* PMDAScraper._extract_content: the first three <p> of the first content
\* container (of the document when there is none), without the short and
\* the boilerplate ones; when none is kept, the first three long lines of
\* the text of the document, cut to 500 characters; no sentinel.
PMDA_extract_content(soup) ==
  LET paragraphs == IF soup.sel # <<>> THEN soup.sel[1] ELSE soup.ps
      kept == qualifying(paragraphs, MAX_PARAGRAPHS_PER_ARTICLE, PMDA_min_length,
                         {"org", "agency", "about"})
  IN IF kept # <<>> THEN Joined(kept)
     ELSE Joined(truncated(filtered_lines(soup.lines, max_filtered_lines,
                                          PMDA_min_length, {"org", "agency"})))

\* WHOScraper._extract_content: as PMDA's, without boilerplate phrases.
WHO_extract_content(soup) ==
  LET paragraphs == IF soup.sel # <<>> THEN soup.sel[1] ELSE soup.ps
      kept == qualifying(paragraphs, MAX_PARAGRAPHS_PER_ARTICLE, WHO_min_length, {})
  IN IF kept # <<>> THEN Joined(kept)
     ELSE Joined(truncated(filtered_lines(soup.lines, max_filtered_lines,
                                          WHO_min_length, {})))

\* The trigger keywords of the attachment harvester.
TriggerKeywords ==
  { <<"r","e","f","l","e","c","t","i","o","n"," ","p","a","p","e","r">>,
    <<"g","u","i","d","e","l","i","n","e">>,
    <<"c","o","n","s","u","l","t","a","t","i","o","n">>,
    <<"d","r","a","f","t">> }

\* any(keyword in title.lower() for keyword in [...])
HasTriggerKeyword(title) ==
  LET lowered == lower(title) IN
  \E kw \in TriggerKeywords : Contains(lowered, kw)

\* text[:n]
Take(text, n) == SubSeq(text, 1, Min(Len(text), n))

\* filename = f"document_{len(documents)}_{doc_title[:50]}.pdf", joined to
\* the working directory, which is the same for every download of a run:
\* the path is determined by the index and the truncated link text.
EMA_filepath(documents, doc_title) ==
  [index |-> Len(documents), stem |-> Take(doc_title, 50)]

\* Mutant of EMA_download_related_documents: the first download that raises
\* ends the harvest.
RECURSIVE EMA_download_stops_at_failure(_, _, _)
EMA_download_stops_at_failure(links, documents, events) ==
  IF links = <<>> THEN [documents |-> documents, events |-> events]
  ELSE LET link == Head(links)
           req  == Append(events, Get("attachment", link.url))
       IN CASE link.result \in {"raise", "unsaved"} ->
                 [documents |-> documents, events |-> req]
            [] link.result = "200" ->
                 EMA_download_stops_at_failure(Tail(links),
                     Append(documents, [title |-> link.title, url |-> link.url,
                                        filepath |-> EMA_filepath(documents, link.title)]),
                     Append(req, Sleep(SLEEP_BETWEEN_REQUESTS)))
            [] OTHER ->
                 EMA_download_stops_at_failure(Tail(links), documents,
                     Append(req, Sleep(SLEEP_BETWEEN_REQUESTS)))

\* EMANewsScraper._download_related_documents: one download per link; a
\* 200 is saved and recorded; an exception of the request or of the write
\* skips to the next link (`continue`), any other outcome is followed by
\* the sleep.  Returns the documents and the requests and sleeps made.
RECURSIVE EMA_download_related_documents(_, _, _)
EMA_download_related_documents(links, documents, events) ==
  IF links = <<>> THEN [documents |-> documents, events |-> events]
  ELSE LET link == Head(links)
           req  == Append(events, Get("attachment", link.url))
       IN CASE link.result \in {"raise", "unsaved"} ->
                 EMA_download_related_documents(Tail(links), documents, req)
            [] link.result = "200" ->
                 EMA_download_related_documents(Tail(links),
                     Append(documents, [title |-> link.title, url |-> link.url,
                                        filepath |-> EMA_filepath(documents, link.title)]),
                     Append(req, Sleep(SLEEP_BETWEEN_REQUESTS)))
            [] OTHER ->
                 EMA_download_related_documents(Tail(links), documents,
                     Append(req, Sleep(SLEEP_BETWEEN_REQUESTS)))

\* EMANewsScraper._scrape_article: the record of one detail page (None when
\* the fetch fails, the title is missing or the date is missing) and the
\* requests and sleeps made.
EMA_scrape_article(u, t) ==
  LET page  == Page(u)
      req   == <<Get("detail", u)>>
      title == EMA_extract_title(page)
      published_at == EMA_extract_date(page, t)
      dl    == IF ~NotText(title) /\ HasTriggerKeyword(title[1])
               THEN EMA_download_related_documents(page.docs, <<>>, <<>>)
               ELSE [documents |-> <<>>, events |-> <<>>]
  IN IF page.status # "ok" THEN [article |-> None, events |-> req]
     ELSE IF NotText(title) THEN [article |-> None, events |-> req]
     ELSE IF published_at = None THEN [article |-> None, events |-> req]
     ELSE [article |-> Some([title |-> title[1], url |-> u,
                             published_at |-> published_at[1],
                             published_at_iso |-> isoformat(published_at[1]),
                             first_paragraphs |-> EMA_extract_content(PageContent(u)),
                             documents |-> dl.documents]),
           events |-> req \o dl.events]

\* FDAScraperSelenium._scrape_document
FDA_scrape_document(u, t) ==
  LET page  == Page(u)
      req   == <<Get("detail", u)>>
      title == FDA_extract_title(page)
      published_at == FDA_extract_date(page, t)
  IN IF page.status # "ok" THEN [article |-> None, events |-> req]
     ELSE IF NotText(title) THEN [article |-> None, events |-> req]
     ELSE IF published_at = None THEN [article |-> None, events |-> req]
     ELSE [article |-> Some([title |-> title[1], url |-> u,
                             published_at |-> published_at[1],
                             published_at_iso |-> isoformat(published_at[1]),
                             first_paragraphs |-> FDA_extract_content(PageContent(u)),
                             documents |-> <<>>]),
           events |-> req]

\* PMDAScraper._scrape_article: title, summary and content; no date.
PMDA_scrape_article(u) ==
  LET page  == Page(u)
      req   == <<Get("detail", u)>>
      title == PMDA_extract_title(page)
  IN IF page.status # "ok" THEN [article |-> None, events |-> req]
     ELSE IF NotText(title) THEN [article |-> None, events |-> req]
     ELSE [article |-> Some([title |-> title[1], url |-> u,
                             first_paragraphs |-> PMDA_extract_content(PageContent(u))]),
           events |-> req]

\* WHOScraper._scrape_article
WHO_scrape_article(u) ==
  LET page  == Page(u)
      req   == <<Get("detail", u)>>
      title == WHO_extract_title(page)
  IN IF page.status # "ok" THEN [article |-> None, events |-> req]
     ELSE IF NotText(title) THEN [article |-> None, events |-> req]
     ELSE [article |-> Some([title |-> title[1], url |-> u,
                             first_paragraphs |-> WHO_extract_content(PageContent(u))]),
           events |-> req]

\* Mutant of is_within_date_range: the bound made exclusive.
is_within_date_range_exclusive(article_date, cutoff_date) == article_date > cutoff_date

\* _is_within_date_range of the four scrapers
is_within_date_range(article_date, cutoff_date) == article_date >= cutoff_date

\* cutoff_date = now - timedelta(days=days_back)
cutoff_date == now - days_back

\* ----------------------------------------------------- candidate locators
\* `if full_url not in urls: urls.append(full_url)` over a list of items
RECURSIVE unique_urls(_, _)
unique_urls(items, urls) ==
  IF items = <<>> THEN urls
  ELSE unique_urls(Tail(items),
                   IF Head(items).url \in RangeOf(urls) THEN urls
                   ELSE Append(urls, Head(items).url))

\* The selector loop of EMANewsScraper._get_news_urls: the elements of the
\* first card selector that matches any (`if cards: break`), [] when none
\* matches.
RECURSIVE EMA_first_cards(_, _)
EMA_first_cards(selectors, page) ==
  IF selectors = <<>> THEN <<>>
  ELSE LET cards == EMA_select(Head(selectors), page) IN
       IF cards # <<>> THEN cards ELSE EMA_first_cards(Tail(selectors), page)

\* EMANewsScraper._get_news_urls: the links of the cards - of all anchors
\* when no card selector matched - whose href holds '/en/news/', each URL
\* once; [] when the listing fetch raises.
EMA_get_news_urls(status, page) ==
  IF status # "ok" THEN <<>>
  ELSE LET found == EMA_first_cards(NEWS_CARD_SELECTORS, page)
           cards == IF found # <<>> THEN found ELSE page
       IN unique_urls(SelectSeq(cards, LAMBDA el : EMA_is_news_href[el.url]), <<>>)

\* The row loop of _get_guidance_data_from_table over the elements of the
\* page: a table row without a date cell or whose link is no guidance URL is
\* skipped; a row whose date does not parse is kept with date None.
RECURSIVE FDA_table_rows(_)
FDA_table_rows(rows) ==
  IF rows = <<>> THEN <<>>
  ELSE LET row == Head(rows) IN
       IF row.via # "row" \/ row.date_text = "absent"
          \/ ~is_guidance_document_url[row.url]
       THEN FDA_table_rows(Tail(rows))
       ELSE <<[url |-> row.url, table_date |-> ParseListingDate(row.date_text)]>>
              \o FDA_table_rows(Tail(rows))

\* The result links of the page that are guidance URLs.
FDA_result_links(page) ==
  SelectSeq(page, LAMBDA el : FDA_is_result_link[el.url]
                                /\ is_guidance_document_url[el.url])

\* FDAScraperSelenium._get_guidance_data_from_table: the (url, date) pairs
\* of the rows; when the rows give none, every result link with date None.
FDA_get_guidance_data_from_table(status, page) ==
  IF status # "ok" THEN <<>>
  ELSE IF FDA_table_rows(page) # <<>> THEN FDA_table_rows(page)
  ELSE [k \in 1..Len(FDA_result_links(page)) |->
          [url |-> FDA_result_links(page)[k].url, table_date |-> None]]

\* FDAScraperSelenium._check_url_exists
FDA_check_url_exists(u) == ProbeStatus(u) = "200"

\* The hard-coded URLs _get_guidance_urls appends to `urls`: the category
\* pages not yet listed, then the recent documents not yet listed whose
\* probe answers 200.
RECURSIVE FDA_add_known_urls(_, _, _)
FDA_add_known_urls(urls, known, probed) ==
  IF known = <<>> THEN urls
  ELSE LET u == Head(known) IN
       FDA_add_known_urls(
         IF u \notin RangeOf(urls) /\ (~probed \/ FDA_check_url_exists(u))
         THEN Append(urls, u) ELSE urls,
         Tail(known), probed)

\* FDAScraperSelenium._extract_urls_from_table: the guidance links of the
\* table rows, each URL once; when there are none, the guidance result
\* links, each URL once.
FDA_extract_urls_from_table(page) ==
  LET rows == unique_urls(SelectSeq(page, LAMBDA el :
                 el.via = "row" /\ is_guidance_document_url[el.url]), <<>>)
  IN IF rows # <<>> THEN rows ELSE unique_urls(FDA_result_links(page), <<>>)

\* The selector loop of _get_guidance_urls, from selector s on: the
\* guidance links of every selector are appended to `urls`, each URL once.
RECURSIVE FDA_scan_selectors(_, _, _)
FDA_scan_selectors(s, page, urls) ==
  IF s > Len(guidance_selectors) THEN urls
  ELSE FDA_scan_selectors(s + 1, page,
         unique_urls(SelectSeq(FDA_select(s, page),
                               LAMBDA el : is_guidance_document_url[el.url]),
                     urls))

\* The URLs _get_guidance_urls takes from the page: those of the table,
\* else those of the selector loop.
FDA_page_urls(page) ==
  IF FDA_extract_urls_from_table(page) # <<>> THEN FDA_extract_urls_from_table(page)
  ELSE FDA_scan_selectors(1, page, <<>>)

\* FDAScraperSelenium._get_guidance_urls: the URLs of the page, then the
\* category pages and the probed recent documents; [] when the listing
\* fetch raises.
FDA_get_guidance_urls(status, page) ==
  IF status # "ok" THEN <<>>
  ELSE FDA_add_known_urls(
         FDA_add_known_urls(FDA_page_urls(page), category_urls, FALSE),
         recent_guidance_urls, TRUE)

\* The probes _get_guidance_urls sends: one per recent document that is not
\* already listed.
FDA_probes(status, page) ==
  IF status # "ok" THEN <<>>
  ELSE LET listed == RangeOf(FDA_page_urls(page)) \cup RangeOf(category_urls)
           todo   == SelectSeq(recent_guidance_urls, LAMBDA u : u \notin listed)
       IN [k \in 1..Len(todo) |-> Get("probe", todo[k])]

\* The ul.list__news loop of PMDAScraper._get_news_urls: an item without a
\* date element or of a filtered category is skipped.
RECURSIVE PMDA_news_list(_)
PMDA_news_list(items) ==
  IF items = <<>> THEN <<>>
  ELSE LET item == Head(items) IN
       IF item.date_text = "absent" \/ item.category \in FilteredCategories
       THEN PMDA_news_list(Tail(items))
       ELSE <<[url |-> item.url, date_text |-> item.date_text,
               category |-> item.category]>> \o PMDA_news_list(Tail(items))

\* The fallback scan of PMDAScraper._get_news_urls over all list items:
\* an item whose text shows a date in the source's notation is kept, with
\* the date marked unknown and the category "other".
RECURSIVE PMDA_general_lists(_)
PMDA_general_lists(items) ==
  IF items = <<>> THEN <<>>
  ELSE LET item == Head(items) IN
       IF ParseListingDate(item.date_text) = None
       THEN PMDA_general_lists(Tail(items))
       ELSE <<[url |-> item.url, date_text |-> date_unknown,
               category |-> "other"]>> \o PMDA_general_lists(Tail(items))

\* PMDAScraper._get_news_urls
PMDA_get_news_urls(status, page) ==
  IF status # "ok" THEN <<>>
  ELSE IF PMDA_news_list(page) # <<>> THEN PMDA_news_list(page)
  ELSE PMDA_general_lists(page)

\* The item loop of WHOScraper._get_news_items: every list item with a
\* link, with the text of its timestamp or the unknown-date marker.
WHO_list_items(page) ==
  [k \in 1..Len(page) |->
     [url |-> page[k].url,
      date_text |-> IF page[k].date_text = "absent" THEN date_unknown
                    ELSE page[k].date_text]]

\* Mutant of WHO_get_news_items: the browser is quit at the end of the
\* parse only, not on the way out of an exception.
WHO_get_news_items_quit_at_end(status, w, page) ==
  [news_items |-> IF status # "ok" \/ w = "timeout" THEN <<>>
                  ELSE WHO_list_items(page),
   quit |-> status # "fail" /\ w # "timeout"]

\* WHOScraper._get_news_items after the browser was started: driver.get
\* or the wait for div.hubfiltering raising (TimeoutException) ends in the
\* outer handler, which returns []; a page without the container, without
\* the list view or without items returns []; `finally: driver.quit()`
\* runs on every one of these paths.
WHO_get_news_items(status, w, page) ==
  [news_items |-> IF status # "ok" \/ w = "timeout" THEN <<>>
                  ELSE WHO_list_items(page),
   quit |-> TRUE]

\* PMDAScraper._parse_date_from_text / WHOScraper._parse_date_from_text
parse_date_from_text(date_text) ==
  IF date_text = date_unknown THEN None ELSE ParseListingDate(date_text)

\* ------------------------------------------------------- served content
\* The elements a source's listing page can hold, each with one anchor.
\* `via` tells what kind of element it is: for EMA the class of a card or
\* "anchor" for a bare anchor; for FDA "row" for a table row, "nav" for a
\* link of the section navigation, "anchor" for any other anchor; for PMDA
\* and WHO "li", a list item.  EMA's cards carry no date and no category;
\* only PMDA's items carry a category.
Items(src) ==
  CASE src = "EMA" ->
         [url : ItemURLs \cup {"x"}, date_text : {"absent"}, category : {""},
          via : {"ecl-card"}]
           \cup [url : {"a", "x"}, date_text : {"absent"}, category : {""},
                 via : {"news-card", "article-card", "info-card", "anchor"}]
    [] src = "FDA" ->
         [url : {"a", "n", "e", "f"}, date_text : DateTexts, category : {""},
          via : {"row"}]
           \cup [url : {"x"}, date_text : {"2024/03/04"}, category : {""}, via : {"row"}]
           \cup [url : LinkURLs, date_text : {"absent"}, category : {""},
                 via : {"anchor"}]
           \cup [url : {"c"}, date_text : {"absent"}, category : {""}, via : {"nav"}]
    [] src = "PMDA" ->
         [url : {"a", "n", "e", "f"}, date_text : DateTexts, category : {""},
          via : {"li"}]
           \cup [url : {"a"}, date_text : {"n/a", "2024/03/04"}, category : {"recruit"},
                 via : {"li"}]
    [] OTHER ->
         [url : {"a", "n", "e", "f"}, date_text : DateTexts, category : {""},
          via : {"li"}]

SeqsUpTo(S, n) == UNION {[1..k -> S] : k \in 0..n}

\* The filler block: PadLen dated items with distinct URLs.
Pad(src) ==
  [k \in 1..PadLen |->
     [url |-> PadURLs[k], date_text |-> "2024/03/04", category |-> "",
      via |-> CASE src = "EMA" -> "ecl-card" [] src = "FDA" -> "row" [] OTHER -> "li"]]

\* The listing pages a source can serve: a short page, a long page (the
\* filler block and a short tail), or a failing fetch.
Listings(src) ==
  [status : {"ok"}, items : SeqsUpTo(Items(src), MaxLen)]
    \cup [status : {"ok"}, items : {Pad(src) \o t : t \in SeqsUpTo(Items(src), MaxTail)}]
    \cup [status : {"fail"}, items : {<<>>}]
    \cup (IF src = "WHO"
          THEN [status : {"no_container", "no_listview"}, items : {<<>>}]
          ELSE {})

\* How the headless browser behaves for a source that renders its listing
\* with it: it starts or not, and the wait for the container element ends
\* in time or with a timeout.  EMA and PMDA use no browser.
Rendering(src) ==
  IF src \in {"FDA", "WHO"}
  THEN {[engine |-> "ok", wait |-> "ok"], [engine |-> "ok", wait |-> "timeout"],
        [engine |-> "unavailable", wait |-> "ok"]}
  ELSE {[engine |-> "ok", wait |-> "ok"]}

\* The state of the date round trip while the pipelines run: idle.
NoRoundTrip ==
  [stage |-> "off", date |-> <<>>, fmt |-> <<>>, date_text |-> <<>>, parsed_date |-> None]

Init ==
  /\ source \in Sources
  /\ now \in Nows
  /\ \E l \in Listings(source) : listing_status = l.status /\ listing = l.items
  /\ \E e \in Rendering(source) : engine = e.engine /\ wait = e.wait
  /\ pc = "idle"
  /\ days_back = 7
  /\ cands = <<>>
  /\ i = 1
  /\ output = <<>>
  /\ trace = <<>>
  /\ processed = 0
  /\ ran = {}
  /\ retained = [d \in Days |-> {}]
  /\ result = "none"
  /\ driver = "none"
  /\ quits = 0
  /\ roundtrip = NoRoundTrip

content == <<source, now, listing_status, listing, engine, wait>>

\* The headless browser of the running invocation.
browser == <<driver, quits>>

\* Mutant of Finish: an empty result is raised as an error.
Finish_raising(records) ==
  /\ pc' = "done"
  /\ result' = IF records = <<>> THEN "raised" ELSE "returned"
  /\ output' = records
  /\ ran' = ran \cup {days_back}
  /\ retained' = [retained EXCEPT
                    ![days_back] = {records[k].url : k \in 1..Len(records)}]

\* `return documents` / `return articles` / `return []`: the run ends and
\* the URLs it retained are remembered for its window.
Finish(records) ==
  /\ pc' = "done"
  /\ result' = "returned"
  /\ output' = records
  /\ ran' = ran \cup {days_back}
  /\ retained' = [retained EXCEPT
                    ![days_back] = {records[k].url : k \in 1..Len(records)}]

\* A caller invokes the entry point with a window not asked for before.
Start(d) ==
  /\ pc \in {"idle", "done"}
  /\ d \notin ran
  /\ days_back' = d
  /\ pc' = IF source \in {"FDA", "WHO"} THEN "setup" ELSE "locate"
  /\ cands' = <<>>
  /\ i' = 1
  /\ output' = <<>>
  /\ trace' = <<>>
  /\ processed' = 0
  /\ result' = "none"
  /\ driver' = "none"
  /\ quits' = 0
  /\ UNCHANGED <<roundtrip, content, ran, retained>>

\* The fetch of a listing page rendered by the headless browser: the
\* request and, when driver.get returned and the wait for the container
\* element did not time out, the three-second settle sleep.
rendered_listing(status, w) ==
  IF status # "fail" /\ w = "ok" THEN <<Get("listing", ""), Sleep(JS_SETTLE_SLEEP)>>
  ELSE <<Get("listing", "")>>

\* ------------------------------------------------------------------- EMA
\* get_news_articles, line 58: news_urls = self._get_news_urls()
EMA_locate ==
  /\ pc = "locate" /\ source = "EMA"
  /\ cands' = EMA_get_news_urls(listing_status, listing)
  /\ trace' = Append(trace, Get("listing", ""))
  /\ pc' = "loop"
  /\ UNCHANGED <<roundtrip, content, days_back, i, output, processed, ran, retained, result, browser>>

\* get_news_articles, lines 61-75: one iteration of the article loop
EMA_item ==
  /\ pc = "loop" /\ source = "EMA"
  /\ i <= Min(Len(cands), MAX_ARTICLES_TO_PROCESS)
  /\ LET r == EMA_scrape_article(cands[i], now) IN
       /\ output' = IF r.article # None
                       /\ is_within_date_range(r.article[1].published_at, cutoff_date)
                    THEN Append(output, r.article[1]) ELSE output
       /\ trace' = (Append(trace, Item(cands[i])) \o r.events)
                     \o <<Sleep(SLEEP_BETWEEN_REQUESTS)>>
  /\ i' = i + 1
  /\ processed' = processed + 1
  /\ UNCHANGED <<roundtrip, content, pc, days_back, cands, ran, retained, result, browser>>

\* ------------------------------------------------------------------- FDA
\* FDAScraperSelenium.__init__ / _setup_driver, run by the caller before
\* the entry point: the browser is started, or the exception of the failed
\* start is logged and raised again, to the caller.
FDA_setup_driver ==
  /\ pc = "setup" /\ source = "FDA"
  /\ IF engine = "ok"
     THEN /\ driver' = "open"
          /\ pc' = "locate"
          /\ UNCHANGED <<roundtrip, content, days_back, cands, i, output, trace, processed,
                         ran, retained, result, quits>>
     ELSE /\ result' = "raised"
          /\ pc' = "done"
          /\ ran' = ran \cup {days_back}
          /\ UNCHANGED <<roundtrip, content, days_back, cands, i, output, trace, processed,
                         retained, browser>>

\* scrape_fda_guidance, line 80: table_data = self._get_guidance_data_from_table()
FDA_locate ==
  /\ pc = "locate" /\ source = "FDA"
  /\ cands' = FDA_get_guidance_data_from_table(listing_status, listing)
  /\ trace' = trace \o rendered_listing(listing_status, wait)
  /\ pc' = "table_loop"
  /\ UNCHANGED <<roundtrip, content, days_back, i, output, processed, ran, retained, result, browser>>

\* Mutant of FDA_use_table_date: the ISO text of the detail page is kept.
FDA_use_table_date_only(document, table_date) ==
  [document EXCEPT !.published_at = table_date]

\* document['published_at'] = table_date
\* document['published_at_iso'] = table_date.isoformat()
FDA_use_table_date(document, table_date) ==
  [document EXCEPT !.published_at = table_date,
                   !.published_at_iso = isoformat(table_date)]

\* scrape_fda_guidance, lines 85-123: one iteration of the table loop
FDA_table_item ==
  /\ pc = "table_loop" /\ source = "FDA"
  /\ i <= Len(cands)
  /\ LET item == cands[i]
         r    == FDA_scrape_document(item.url, now)
     IN IF item.table_date = None
        THEN /\ output' = IF r.article # None
                             /\ is_within_date_range(r.article[1].published_at, cutoff_date)
                          THEN Append(output, r.article[1]) ELSE output
             /\ trace' = (Append(trace, Item(item.url)) \o r.events)
                           \o <<Sleep(FDA_CRAWL_DELAY)>>
        ELSE IF is_within_date_range(item.table_date[1], cutoff_date)
        THEN /\ output' = IF r.article # None
                          THEN Append(output,
                                 FDA_use_table_date(r.article[1], item.table_date[1]))
                          ELSE output
             /\ trace' = (Append(trace, Item(item.url)) \o r.events)
                           \o <<Sleep(FDA_CRAWL_DELAY)>>
        ELSE /\ output' = output
             /\ trace' = trace \o <<Item(item.url), Sleep(FDA_CRAWL_DELAY)>>
  /\ i' = i + 1
  /\ processed' = processed + 1
  /\ UNCHANGED <<roundtrip, content, pc, days_back, cands, ran, retained, result, browser>>

\* scrape_fda_guidance, lines 126-131 and 159-160: after the table loop,
\* return the documents, or - when there are none - discover candidates
\* with _get_guidance_urls and return [] when that finds none.
FDA_after_table ==
  /\ pc = "table_loop" /\ source = "FDA"
  /\ i > Len(cands)
  /\ IF output # <<>>
     THEN /\ Finish(output)
          /\ UNCHANGED <<roundtrip, content, days_back, cands, i, trace, processed, browser>>
     ELSE LET guidance_urls == FDA_get_guidance_urls(listing_status, listing) IN
          /\ trace' = (trace \o rendered_listing(listing_status, wait))
                         \o FDA_probes(listing_status, listing)
          /\ IF guidance_urls = <<>>
             THEN /\ Finish(<<>>)
                  /\ UNCHANGED <<roundtrip, content, days_back, cands, i, processed, browser>>
             ELSE /\ cands' = guidance_urls
                  /\ i' = 1
                  /\ pc' = "loop"
                  /\ UNCHANGED <<roundtrip, content, days_back, output, processed, ran, retained, result, browser>>

\* if i < len(guidance_urls) - 1: time.sleep(FDA_CRAWL_DELAY)
FDA_sleeps(idx, n) == idx < n - 1

\* scrape_fda_guidance, lines 133-157: one iteration of the fallback loop
FDA_fallback_item ==
  /\ pc = "loop" /\ source = "FDA"
  /\ i <= Min(Len(cands), MAX_ARTICLES_TO_PROCESS)
  /\ LET r == FDA_scrape_document(cands[i], now) IN
       /\ output' = IF r.article # None
                       /\ is_within_date_range(r.article[1].published_at, cutoff_date)
                    THEN Append(output, r.article[1]) ELSE output
       /\ trace' = (Append(trace, Item(cands[i])) \o r.events)
                     \o (IF FDA_sleeps(i - 1, Len(cands))
                         THEN <<Sleep(FDA_CRAWL_DELAY)>> ELSE <<>>)
  /\ i' = i + 1
  /\ processed' = processed + 1
  /\ UNCHANGED <<roundtrip, content, pc, days_back, cands, ran, retained, result, browser>>

\* ------------------------------------------------------------------ PMDA
\* scrape_pmda_news, lines 57-60: news_items = self._get_news_urls();
\* return [] when there are none
PMDA_locate ==
  /\ pc = "locate" /\ source = "PMDA"
  /\ trace' = Append(trace, Get("listing", ""))
  /\ LET news_items == PMDA_get_news_urls(listing_status, listing) IN
       IF news_items = <<>>
       THEN /\ Finish(<<>>)
            /\ UNCHANGED <<roundtrip, content, days_back, cands, i, processed, browser>>
       ELSE /\ cands' = news_items
            /\ pc' = "loop"
            /\ UNCHANGED <<roundtrip, content, days_back, i, output, processed, ran, retained, result, browser>>

\* Mutant of listing_published_at: the listing date is never used.
listing_published_at_now(date_text, t) == t

\* published_at = self._parse_date_from_text(date_text), or the current
\* time when that is None (scrape_pmda_news 73-76, scrape_who_news 67-70)
listing_published_at(date_text, t) ==
  IF parse_date_from_text(date_text) = None THEN t
  ELSE parse_date_from_text(date_text)[1]

\* if i < len(news_items) - 1: time.sleep(SLEEP_BETWEEN_REQUESTS)
PMDA_sleeps(idx, n) == idx < n - 1

\* scrape_pmda_news, lines 63-105: one iteration of the item loop
PMDA_item ==
  /\ pc = "loop" /\ source = "PMDA"
  /\ i <= Min(Len(cands), MAX_ARTICLES_TO_PROCESS)
  /\ LET news_item    == cands[i]
         published_at == listing_published_at(news_item.date_text, now)
         r            == PMDA_scrape_article(news_item.url)
         pause        == IF PMDA_sleeps(i - 1, Len(cands))
                         THEN <<Sleep(SLEEP_BETWEEN_REQUESTS)>> ELSE <<>>
     IN IF is_within_date_range(published_at, cutoff_date)
        THEN /\ output' = IF r.article # None
                          THEN Append(output,
                                 [title |-> r.article[1].title, url |-> r.article[1].url,
                                  first_paragraphs |-> r.article[1].first_paragraphs,
                                  published_at |-> published_at,
                                  published_at_iso |-> isoformat(published_at),
                                  category |-> news_item.category])
                          ELSE output
             /\ trace' = (Append(trace, Item(news_item.url)) \o r.events) \o pause
        ELSE /\ output' = output
             /\ trace' = Append(trace, Item(news_item.url)) \o pause
  /\ i' = i + 1
  /\ processed' = processed + 1
  /\ UNCHANGED <<roundtrip, content, pc, days_back, cands, ran, retained, result, browser>>

\* ------------------------------------------------------------------- WHO
\* _get_news_items, lines 108-127, called from scrape_who_news line 52:
\* the browser is started; when that raises, _get_news_items logs the
\* exception and returns [], and scrape_who_news returns [].
WHO_setup_driver ==
  /\ pc = "setup" /\ source = "WHO"
  /\ IF engine = "ok"
     THEN /\ driver' = "open"
          /\ pc' = "locate"
          /\ UNCHANGED <<roundtrip, content, days_back, cands, i, output, trace, processed,
                         ran, retained, result, quits>>
     ELSE /\ Finish(<<>>)
          /\ UNCHANGED <<roundtrip, content, days_back, cands, i, trace, processed, browser>>

\* _get_news_items, lines 129-227, and scrape_who_news, lines 53-55: the
\* listing is rendered and parsed, the browser is quit on the way out, and
\* the run returns [] when there are no news items.
WHO_locate ==
  /\ pc = "locate" /\ source = "WHO"
  /\ trace' = trace \o rendered_listing(listing_status, wait)
  /\ LET found == WHO_get_news_items(listing_status, wait, listing) IN
       /\ driver' = IF found.quit THEN "quit" ELSE driver
       /\ quits' = IF found.quit THEN quits + 1 ELSE quits
       /\ IF found.news_items = <<>>
          THEN /\ Finish(<<>>)
               /\ UNCHANGED <<roundtrip, content, days_back, cands, i, processed>>
          ELSE /\ cands' = found.news_items
               /\ pc' = "loop"
               /\ UNCHANGED <<roundtrip, content, days_back, i, output, processed, ran,
                              retained, result>>

\* Mutant of WHO_retains: the unknown-date marker excludes the item.
WHO_retains_dated_only(date_text, published_at, cutoff) ==
  date_text # date_unknown /\ is_within_date_range(published_at, cutoff)

\* scrape_who_news, line 77:
\* date_text == unknown or self._is_within_date_range(published_at, cutoff_date)
WHO_retains(date_text, published_at, cutoff) ==
  date_text = date_unknown \/ is_within_date_range(published_at, cutoff)

\* Mutant of WHO_sleeps: the sleep stops one item early.
WHO_sleeps_one_less(idx, n) == idx < n - 2

\* if i < len(news_items) - 1: time.sleep(SLEEP_BETWEEN_REQUESTS)
WHO_sleeps(idx, n) == idx < n - 1

\* scrape_who_news, lines 58-97: one iteration of the item loop
WHO_item ==
  /\ pc = "loop" /\ source = "WHO"
  /\ i <= Min(Len(cands), MAX_ARTICLES_TO_PROCESS)
  /\ LET news_item    == cands[i]
         published_at == listing_published_at(news_item.date_text, now)
         r            == WHO_scrape_article(news_item.url)
         pause        == IF WHO_sleeps(i - 1, Len(cands))
                         THEN <<Sleep(SLEEP_BETWEEN_REQUESTS)>> ELSE <<>>
     IN IF WHO_retains(news_item.date_text, published_at, cutoff_date)
        THEN /\ output' = IF r.article # None
                          THEN Append(output,
                                 [title |-> r.article[1].title, url |-> r.article[1].url,
                                  first_paragraphs |-> r.article[1].first_paragraphs,
                                  published_at |-> published_at,
                                  published_at_iso |-> isoformat(published_at)])
                          ELSE output
             /\ trace' = (Append(trace, Item(news_item.url)) \o r.events) \o pause
        ELSE /\ output' = output
             /\ trace' = Append(trace, Item(news_item.url)) \o pause
  /\ i' = i + 1
  /\ processed' = processed + 1
  /\ UNCHANGED <<roundtrip, content, pc, days_back, cands, ran, retained, result, browser>>

\* ---------------------------------------------------------------- return
\* The loop over news_urls[:MAX_ARTICLES_TO_PROCESS] is exhausted:
\* `return articles` / `return documents`.
Return ==
  /\ pc = "loop"
  /\ i > Min(Len(cands), MAX_ARTICLES_TO_PROCESS)
  /\ Finish(output)
  /\ UNCHANGED <<roundtrip, content, days_back, cands, i, trace, processed, browser>>

Next ==
  \/ \E d \in Days : Start(d)
  \/ EMA_locate
  \/ EMA_item
  \/ FDA_setup_driver
  \/ FDA_locate
  \/ FDA_table_item
  \/ FDA_after_table
  \/ FDA_fallback_item
  \/ PMDA_locate
  \/ PMDA_item
  \/ WHO_setup_driver
  \/ WHO_locate
  \/ WHO_item
  \/ Return

Spec == Init /\ [][Next]_vars

\* ================================================================ claims
OutputURLs == {output[k].url : k \in 1..Len(output)}

\* The positions of the trace that hold a detail-page request.
DetailGets == {k \in 1..Len(trace) : trace[k].kind = "detail"}

\* The source's inter_request_delay.
Delay == IF source = "FDA" THEN FDA_CRAWL_DELAY ELSE SLEEP_BETWEEN_REQUESTS

\* Scanning the trace from position k: no two requests of the given kinds
\* follow one another without a sleep of at least the source's delay in
\* between (pending: such a request was made and no such sleep since).
RECURSIVE Spaced(_, _, _)
Spaced(kinds, k, pending) ==
  IF k > Len(trace) THEN TRUE
  ELSE IF trace[k].kind \in kinds
       THEN ~pending /\ Spaced(kinds, k + 1, TRUE)
  ELSE IF trace[k].op = "sleep" /\ trace[k].dur >= Delay
       THEN Spaced(kinds, k + 1, FALSE)
  ELSE Spaced(kinds, k + 1, pending)

\* The item loop has handled the candidates 1..i-1.
InLoop == pc \in {"loop", "table_loop"}
LoopExhausted ==
  \/ pc = "table_loop" /\ i > Len(cands)
  \/ pc = "loop" /\ i > Min(Len(cands), MAX_ARTICLES_TO_PROCESS)

\* The title extractor of the running source accepts the page of u.
DetailValid(u) ==
  /\ Page(u).status = "ok"
  /\ ~NotText(CASE source = "EMA"  -> EMA_extract_title(Page(u))
                [] source = "FDA"  -> FDA_extract_title(Page(u))
                [] source = "PMDA" -> PMDA_extract_title(Page(u))
                [] OTHER           -> WHO_extract_title(Page(u)))

\* C1: for two lookback windows d1 < d2 evaluated on the same content at
\* the same `now`, the URLs retained for d1 are among those retained for
\* d2, for every source.
C1_MonotonicWidening ==
  \A d1 \in ran, d2 \in ran : d1 < d2 => retained[d1] \subseteq retained[d2]

\* C2: every emitted record has a non-empty title that holds none of the
\* error-page phrases, case-insensitively.
C2_TitlesClean ==
  \A k \in 1..Len(output) :
     output[k].title # <<>> /\ ~HasErrorPhrase(output[k].title)

\* C3: no two emitted records of one run have the same url.
C3_UniqueURLs ==
  \A j \in 1..Len(output), k \in 1..Len(output) :
     j # k => output[j].url # output[k].url

\* The publication date determined for candidate k of the running loop
\* (None when no strategy determines one): EMA and the FDA fallback loop
\* read the detail page, the FDA table loop prefers the table date, PMDA
\* and WHO parse the listing date.
DeterminedDate(k) ==
  CASE source = "EMA" -> Page(cands[k]).date
    [] source = "FDA" /\ pc = "loop" -> FDA_found_date(Page(cands[k]), now)
    [] source = "FDA" -> IF cands[k].table_date # None THEN cands[k].table_date
                         ELSE FDA_found_date(Page(cands[k].url), now)
    [] OTHER -> parse_date_from_text(cands[k].date_text)

CandidateURL(k) ==
  IF source = "EMA" \/ (source = "FDA" /\ pc = "loop") THEN cands[k] ELSE cands[k].url

C5_UnknownDateExcluded ==
  /\ source = "EMA" => \A k \in 1..Len(output) : Page(output[k].url).date # None
  /\ source = "FDA" =>
       \A k \in 1..Len(output) :
          FDA_found_date(Page(output[k].url), now) = None =>
            \E r \in 1..Len(listing) :
               /\ listing[r].url = output[k].url
               /\ ParseListingDate(listing[r].date_text) # None

\* C6 as stated: every WHO candidate whose listing item shows no date and
\* whose detail page has a valid title is in the output of the finished run.
C6_UnknownDateIncluded_AsStated ==
  (source = "WHO" /\ LoopExhausted) =>
     \A k \in 1..Len(cands) :
        (cands[k].date_text = date_unknown /\ DetailValid(cands[k].url))
          => cands[k].url \in OutputURLs

\* C6 amended: every WHO candidate among the first MAX_ARTICLES_TO_PROCESS
\* of the listing whose item shows no date and whose detail page has a
\* valid title is emitted, whatever days_back is.
C6_UnknownDateIncluded ==
  (source = "WHO" /\ InLoop) =>
     \A k \in 1..(i - 1) :
        (cands[k].date_text = date_unknown /\ DetailValid(cands[k].url))
          => cands[k].url \in OutputURLs

\* C6 witness: a finished WHO run with the shortest window, at a time when
\* every dated item is out of range, that emitted an undated candidate.
C6_Witness ==
  /\ source = "WHO" /\ pc = "done" /\ days_back = 1 /\ now = 91
  /\ \E k \in 1..Len(cands) :
        cands[k].date_text = date_unknown /\ cands[k].url \in OutputURLs

\* The number of detail-page fetches of the run.
DetailFetches == Cardinality(DetailGets)

\* C7: a run handles at most MAX_ARTICLES_TO_PROCESS candidates, and so
\* fetches at most that many detail pages and emits at most that many
\* records.
C7_ProcessedWithinCap ==
  /\ processed <= MAX_ARTICLES_TO_PROCESS
  /\ DetailFetches <= MAX_ARTICLES_TO_PROCESS
  /\ Len(output) <= MAX_ARTICLES_TO_PROCESS

\* C8: when a run has ended, every inter-request sleep of its item loops
\* was followed by a further item: none was performed after the last item.
C8_NoSleepAfterLastItem ==
  pc = "done" =>
     \A k \in 1..Len(trace) :
        (trace[k].op = "sleep" /\ trace[k].dur = Delay)
          => \E m \in (k + 1)..Len(trace) : trace[m].op = "item"

\* The time slept in inter-request sleeps up to position k of the trace.
RECURSIVE SleptUpTo(_)
SleptUpTo(k) ==
  IF k = 0 THEN 0
  ELSE (IF trace[k].op = "sleep" /\ trace[k].dur = Delay THEN Delay ELSE 0)
         + SleptUpTo(k - 1)

\* C9: between the detail-page fetches of two items handled one after the
\* other lies a sleep of at least the source's delay, also when the earlier
\* fetch failed; so N handled items take at least (N-1) delays.
C9_SleepBetweenItems ==
  /\ Spaced({"detail"}, 1, FALSE)
  /\ processed >= 1 => SleptUpTo(Len(trace)) >= (processed - 1) * Delay

\* C9 witness: two detail pages were fetched one after the other in a loop
\* that sleeps conditionally, the first of them failing.
C9_Witness ==
  /\ source \in {"PMDA", "WHO", "FDA"} /\ pc = "loop"
  /\ \E j \in DetailGets, k \in DetailGets :
        j < k /\ Page(trace[j].url).status = "fail"

\* C10: every request is separated from the previous request to the source
\* by a sleep of at least the source's delay.
C10_PolitenessDelay ==
  Spaced({"listing", "detail", "attachment", "probe"}, 1, FALSE)

\* The date the running loop compares with the cutoff for candidate k.
TestedDate(k) ==
  CASE source = "EMA" -> EMA_extract_date(Page(cands[k]), now)[1]
    [] source = "FDA" /\ pc = "loop" -> FDA_extract_date(Page(cands[k]), now)[1]
    [] source = "FDA" -> IF cands[k].table_date # None THEN cands[k].table_date[1]
                         ELSE FDA_extract_date(Page(cands[k].url), now)[1]
    [] OTHER -> listing_published_at(cands[k].date_text, now)

\* Candidate k is in range for the running loop.
InRange(k) ==
  \/ source = "WHO" /\ cands[k].date_text = date_unknown
  \/ TestedDate(k) >= now - days_back

\* The number of candidates of the running pass that lie within the cap.
WithinCap ==
  IF Len(cands) < MAX_ARTICLES_TO_PROCESS THEN Len(cands) ELSE MAX_ARTICLES_TO_PROCESS

\* C11: a candidate whose fetch or extraction fails is skipped, the
\* candidates after it are still handled - a pass ends only when all its
\* candidates within the cap were handled - and every handled candidate
\* that is valid and in range is in the output, in all four sources.
C11_FailureIsolation ==
  /\ InLoop =>
       \A k \in 1..(i - 1) :
          /\ ~DetailValid(CandidateURL(k)) => CandidateURL(k) \notin OutputURLs
          /\ (DetailValid(CandidateURL(k)) /\ InRange(k))
               => CandidateURL(k) \in OutputURLs
  /\ pc = "done" => i - 1 >= WithinCap

\* C11 witness: a candidate whose fetch failed was skipped and a later
\* candidate of the same pass was emitted.
C11_Witness ==
  /\ InLoop
  /\ \E j \in 1..(i - 1), k \in 1..(i - 1) :
        /\ j < k
        /\ Page(CandidateURL(j)).status = "fail"
        /\ CandidateURL(j) \notin OutputURLs
        /\ CandidateURL(k) \in OutputURLs

\* C12: the entry point of every source returns a list - empty or partial -
\* when the listing fetch fails, when there are no candidates, when every
\* item is filtered out and when items fail; an invocation ends with an
\* exception only when FDA's browser cannot be started, before the entry
\* point runs.
C12_EntryPointReturns ==
  pc = "done" =>
     \/ result = "returned"
     \/ source = "FDA" /\ engine = "unavailable" /\ trace = <<>>

\* C12 witness: a run whose listing fetch failed in both of FDA's discovery
\* passes returned the empty list.
C12_Witness ==
  /\ pc = "done" /\ source = "FDA" /\ engine = "ok"
  /\ listing_status = "fail" /\ Len(trace) = 2
  /\ result = "returned" /\ output = <<>>

\* C13: when the headless browser cannot be started, the invocation of a
\* source that renders its listing with it (FDA, WHO) ends with the error
\* reaching the caller, not with a returned list.
C13_SetupErrorsSurfaced ==
  (pc = "done" /\ engine = "unavailable") => result = "raised"

\* The candidates the locator of the running source finds in the rendered
\* listing when the wait for the container element ends in time.
FoundInDOM ==
  IF source = "WHO" THEN WHO_list_items(listing)
  ELSE FDA_get_guidance_data_from_table("ok", listing)

\* C18: when the wait for the listing's container element times out on a
\* page that did load, discovery goes on with the DOM rendered so far: the
\* candidates of FDA's table pass and of WHO are those found in that DOM.
C18_WaitTimeoutBestEffort ==
  (wait = "timeout" /\ listing_status = "ok" /\ listing # <<>>)
    => /\ (source = "FDA" /\ pc = "table_loop") => cands = FoundInDOM
       /\ (source = "WHO" /\ pc \in {"loop", "done"}) => cands = FoundInDOM

\* C19: the browser started for one WHO discovery call is quit exactly once
\* before the call returns, on every way out: it is open only while the
\* call is rendering and parsing, and after the call it has been quit once.
C19_DriverQuitOnce ==
  source = "WHO" =>
     /\ driver = "open" => (pc = "locate" /\ quits = 0)
     /\ (pc \in {"loop", "done"} /\ engine = "ok") => (driver = "quit" /\ quits = 1)
     /\ engine = "unavailable" => (driver = "none" /\ quits = 0)

\* C19 witness: a WHO discovery call that ended with a timeout of the wait
\* for the container left the browser quit, once.
C19_Witness ==
  /\ source = "WHO" /\ pc = "done" /\ wait = "timeout"
  /\ listing_status = "ok" /\ listing # <<>>
  /\ driver = "quit" /\ quits = 1

\* The date the listing page gives for candidate k, parsed (None when the
\* listing gives none or it does not parse): FDA's table date, the listing
\* date of PMDA and WHO.
ListingDate(k) ==
  CASE source = "FDA" /\ pc = "table_loop" -> cands[k].table_date
    [] source \in {"PMDA", "WHO"} -> parse_date_from_text(cands[k].date_text)
    [] OTHER -> None

UnparsedListingDate(k) ==
  CASE source = "FDA" /\ pc = "table_loop" ->
         FDA_table_rows(listing) # <<>> /\ cands[k].table_date = None
    [] source \in {"PMDA", "WHO"} ->
         /\ cands[k].date_text # date_unknown
         /\ parse_date_from_text(cands[k].date_text) = None
    [] OTHER -> FALSE

\* C15: when the listing's date text of a candidate does not parse, the
\* date extracted from its detail page decides: the candidate - its detail
\* page valid and dated D - is emitted exactly when D is at or after the
\* cutoff, with published_at = D (FDA, PMDA, WHO).
C15_UnparsedListingDateFallsBack ==
  [][ (InLoop /\ i' = i + 1 /\ UnparsedListingDate(i)
         /\ DetailValid(CandidateURL(i)) /\ Page(CandidateURL(i)).date # None)
        => IF Page(CandidateURL(i)).date[1] >= now - days_back
           THEN /\ Len(output') = Len(output) + 1
                /\ output'[Len(output')].published_at = Page(CandidateURL(i)).date[1]
           ELSE output' = output ]_vars

\* C20: every attachment download the EMA harvester attempts is followed,
\* before any further request, by a sleep of the source's delay, whatever
\* the outcome of the download.
C20_SleepAfterAttachment ==
  \A k \in 1..Len(trace) :
     trace[k].kind = "attachment"
       => /\ k < Len(trace)
          /\ trace[k + 1].op = "sleep" /\ trace[k + 1].dur >= Delay

\* The elements of the listing that locator strategy s of the running
\* source matches: EMA's card selectors, FDA's link selectors.
StrategyMatches(s) ==
  IF source = "EMA" THEN EMA_select(NEWS_CARD_SELECTORS[s], listing)
  ELSE FDA_select(s, listing)

StrategyCount ==
  IF source = "EMA" THEN Len(NEWS_CARD_SELECTORS) ELSE Len(guidance_selectors)

\* The first strategy, in priority order, that matches an element; 0 when
\* none does.
WinningStrategy ==
  IF \E s \in 1..StrategyCount : StrategyMatches(s) # <<>>
  THEN CHOOSE s \in 1..StrategyCount :
          /\ StrategyMatches(s) # <<>>
          /\ \A r \in 1..(s - 1) : StrategyMatches(r) = <<>>
  ELSE 0

\* The URLs of the anchors the winning strategy supplies; of all anchors of
\* the listing when no strategy matched.
SuppliedURLs ==
  IF WinningStrategy = 0 THEN {listing[k].url : k \in 1..Len(listing)}
  ELSE RangeOf([k \in 1..Len(StrategyMatches(WinningStrategy)) |->
                   StrategyMatches(WinningStrategy)[k].url])

\* The URL matches the inclusion pattern of the running source and none of
\* its exclusion patterns.
Included(u) ==
  IF source = "EMA" THEN EMA_is_news_href[u] ELSE is_guidance_document_url[u]

\* The URLs FDA's fallback discovery adds that are written in the code.
KnownURLs == RangeOf(category_urls) \cup RangeOf(recent_guidance_urls)

\* C16: the candidates a locator takes from the listing are the included
\* links of one strategy, the first in priority order that matches
\* anything, and those of all anchors only when no strategy matched: for
\* EMA's card selectors, and for FDA's link selectors when they are used
\* (the table gave no URL).
C16_OneLocatorStrategy ==
  /\ (source = "EMA" /\ pc \in {"loop", "done"} /\ listing_status = "ok")
       => RangeOf(cands) = {u \in SuppliedURLs : Included(u)}
  /\ (source = "FDA" /\ pc = "loop" /\ FDA_extract_urls_from_table(listing) = <<>>)
       => RangeOf(cands) \ KnownURLs = {u \in SuppliedURLs : Included(u)} \ KnownURLs

\* The URLs the locator of the running pass returned, in order.
LocatedURLs ==
  IF source = "FDA" /\ pc = "table_loop"
  THEN [k \in 1..Len(cands) |-> cands[k].url]
  ELSE cands

\* The position of the first anchor of the listing that points to u.
FirstAnchor(u) ==
  CHOOSE k \in 1..Len(listing) :
     listing[k].url = u /\ \A j \in 1..(k - 1) : listing[j].url # u

\* C17: what a locator of EMA or FDA returns are URLs of anchors of the
\* listing that match the inclusion pattern and no exclusion pattern, each
\* URL once, in the order of their first anchors; for EMA they are all such
\* URLs of the anchors its strategy supplies.
C17_LocatorOutput ==
  ((source = "EMA" /\ pc = "loop") \/ (source = "FDA" /\ pc \in {"table_loop", "loop"}))
    => /\ \A k \in 1..Len(LocatedURLs) :
             /\ \E a \in 1..Len(listing) : listing[a].url = LocatedURLs[k]
             /\ Included(LocatedURLs[k])
       /\ \A j \in 1..Len(LocatedURLs), k \in 1..Len(LocatedURLs) :
             j < k => /\ LocatedURLs[j] # LocatedURLs[k]
                      /\ FirstAnchor(LocatedURLs[j]) < FirstAnchor(LocatedURLs[k])
       /\ source = "EMA" => RangeOf(cands) = {u \in SuppliedURLs : Included(u)}

\* The URLs of the attachment links of page u whose download answered 200
\* and was saved, in the order of the links.
RECURSIVE SavedLinks(_)
SavedLinks(links) ==
  IF links = <<>> THEN <<>>
  ELSE IF Head(links).result = "200"
       THEN <<Head(links).url>> \o SavedLinks(Tail(links))
       ELSE SavedLinks(Tail(links))

\* The title of page u triggers EMA's attachment harvester.
Triggers(u) ==
  /\ DetailValid(u)
  /\ HasTriggerKeyword(EMA_extract_title(Page(u))[1])

\* The URLs of the attachment requests of the trace.
AttachmentGets == {trace[k].url : k \in {j \in 1..Len(trace) : trace[j].kind = "attachment"}}

\* C21: in EMA a failing download or save of one attachment drops neither
\* the other attachments nor the parent record: for every handled article
\* whose title triggers the harvester every attachment link was requested,
\* the article is emitted when it is in range, and its record lists exactly
\* the attachments that were downloaded and saved, in link order.
C21_AttachmentFailureIsolation ==
  (source = "EMA" /\ InLoop) =>
     \A k \in 1..(i - 1) :
        Triggers(cands[k]) =>
          /\ \A d \in 1..Len(Page(cands[k]).docs) :
                Page(cands[k]).docs[d].url \in AttachmentGets
          /\ InRange(k) => cands[k] \in OutputURLs
          /\ \A r \in 1..Len(output) :
                output[r].url = cands[k] =>
                  [d \in 1..Len(output[r].documents) |-> output[r].documents[d].url]
                    = SavedLinks(Page(cands[k]).docs)

\* C21 witness: an article was emitted with an attachment that was
\* downloaded after the download of an earlier link of the same article had
\* raised, and after the save of another had failed.
C21_Witness ==
  /\ source = "EMA" /\ InLoop
  /\ \E r \in 1..Len(output) :
        LET links == Page(output[r].url).docs IN
        \E a \in 1..Len(links), b \in 1..Len(links), c \in 1..Len(links) :
           /\ a < c /\ b < c
           /\ links[a].result = "raise" /\ links[b].result = "unsaved"
           /\ links[c].result = "200"
           /\ \E d \in 1..Len(output[r].documents) :
                 output[r].documents[d].url = links[c].url

\* The attachments of the emitted records: (record, position) pairs.
Harvested ==
  IF source # "EMA" THEN {}
  ELSE UNION {{<<r, d>> : d \in 1..Len(output[r].documents)} : r \in 1..Len(output)}

\* C30: within one EMA run no two harvested attachments, of the same or of
\* different records, have the same local file path.
C30_UniqueFilePaths ==
  \A p \in Harvested, q \in Harvested :
     p # q => output[p[1]].documents[p[2]].filepath
                # output[q[1]].documents[q[2]].filepath

\* The content extractor of the running source.
min_length ==
  CASE source = "EMA" -> EMA_min_length [] source = "FDA" -> FDA_min_length
    [] source = "PMDA" -> PMDA_min_length [] OTHER -> WHO_min_length

\* C22: every '\n\n'-separated paragraph of the body excerpt of an emitted
\* record is longer than the minimum length of its source, on every
\* extraction path (the sentinel and the empty excerpt have no paragraph).
C22_ParagraphsExceedMinimum ==
  \A k \in 1..Len(output) :
     \A j \in 1..Len(output[k].first_paragraphs.parts) :
        output[k].first_paragraphs.parts[j] > min_length

\* The paragraph bound for excerpts that the 500-character cut did not shorten.
UncutParagraphsExceedMinimum ==
  \A k \in 1..Len(output) :
     (source \in {"PMDA", "WHO"}
        => joined_length(filtered_lines(PageContent(output[k].url).lines,
                            max_filtered_lines, min_length,
                            IF source = "PMDA" THEN {"org", "agency"} ELSE {}))
             <= max_content_length)
       => \A j \in 1..Len(output[k].first_paragraphs.parts) :
             output[k].first_paragraphs.parts[j] > min_length

\* C23: the body excerpt of an emitted record is never the empty string:
\* when no paragraph qualifies it is the sentinel.
C23_SentinelNeverEmpty ==
  \A k \in 1..Len(output) :
     \/ output[k].first_paragraphs.sentinel
     \/ output[k].first_paragraphs.parts # <<>>

\* EMA and FDA, whose extractors end with the sentinel, never emit the
\* empty excerpt.
SentinelWhereDefined ==
  source \in {"EMA", "FDA"} => C23_SentinelNeverEmpty

\* C24: within one run the detail page of a URL is requested at most once;
\* a candidate is never fetched again, also not by FDA's fallback pass
\* after its table pass.
C24_NoRetry ==
  \A j \in DetailGets, k \in DetailGets : j # k => trace[j].url # trace[k].url

\* The candidates FDA's listing table yields.
TableCandidates == FDA_get_guidance_data_from_table(listing_status, listing)

\* The number of times the run has loaded the listing page.
ListingLoads == Cardinality({k \in 1..Len(trace) : trace[k].kind = "listing"})

\* C27: when FDA's listing table yields at least one candidate, the
\* fallback discovery is not used - the listing is loaded once, no pass over
\* discovered URLs runs - and every emitted record is a table candidate.
C27_FallbackOnlyWithoutTableData ==
  (source = "FDA" /\ TableCandidates # <<>>) =>
     /\ ListingLoads <= 1
     /\ pc # "loop"
     /\ OutputURLs \subseteq {TableCandidates[k].url : k \in 1..Len(TableCandidates)}

\* The fallback discovery is used when the table yields no candidate.
FallbackWithoutTableData ==
  (source = "FDA" /\ TableCandidates = <<>> /\ pc = "done" /\ result = "returned"
     /\ listing_status = "ok")
    => ListingLoads = 2

\* C28: PMDA never emits an item of a filtered category (recruitment,
\* procurement), whichever locator path found it: every emitted record
\* comes from a listing item whose category is not filtered.
C28_FilteredCategoriesNeverEmitted ==
  source = "PMDA" =>
     \A k \in 1..Len(output) :
        \E r \in 1..Len(listing) :
           /\ listing[r].url = output[k].url
           /\ listing[r].category \notin FilteredCategories

\* On the ul.list__news path no item of a filtered category is emitted.
FilteredOnNewsListPath ==
  (source = "PMDA" /\ PMDA_news_list(listing) # <<>>)
    => C28_FilteredCategoriesNeverEmitted


\* C29: every emitted record carries published_at and published_at_iso,
\* published_at is a date, and published_at_iso is the ISO rendering of
\* that same date, also after a listing date replaced the detail-page date.
C29_IsoMatchesPublishedAt ==
  \A k \in 1..Len(output) :
     /\ {"published_at", "published_at_iso"} \subseteq DOMAIN output[k]
     /\ output[k].published_at \in Int
     /\ output[k].published_at_iso = isoformat(output[k].published_at)

\* C29 witness: FDA emitted a record whose date is the date of its table
\* row and differs from the date its detail page yields.
C29_Witness ==
  /\ source = "FDA" /\ pc = "table_loop"
  /\ \E k \in 1..(i - 1) :
        /\ cands[k].table_date # None
        /\ \E r \in 1..Len(output) :
              /\ output[r].url = cands[k].url
              /\ output[r].published_at = cands[k].table_date[1]
              /\ output[r].published_at
                   # FDA_extract_date(Page(output[r].url), now)[1]
              /\ output[r].published_at_iso = <<"2","0","2","4","-","0","3","-","0","4">>

\* The URLs whose detail page the run has fetched.
FetchedURLs == {trace[k].url : k \in DetailGets}

\* The age limit of FDA's regex scan: the first day of the year two years
\* before the current one.
OldestAccepted == DayOf(YearOf(now, 2024) - 2, 1, 1)

\* C26: the regex scan over the text of a fetched detail page returns only
\* a match that is not later than now and not older than the age limit; a
\* date after now is never returned (FDA: the scan of _extract_date, whose
\* result dates the record; PMDA: the scan of its _extract_date).
C26_RegexScanWithinLimits ==
  /\ source = "FDA" =>
       \A u \in FetchedURLs :
          LET found == FDA_regex_scan(Page(u).text_dates, now) IN
          found # None => (found[1] <= now /\ found[1] >= OldestAccepted)
  /\ source = "PMDA" =>
       \A u \in FetchedURLs :
          LET found == PMDA_regex_scan(Page(u).text_dates, now) IN
          found # None => found[1] <= now

\* No FDA record is dated after now.
NoFutureRecord ==
  source = "FDA" => \A k \in 1..Len(output) : output[k].published_at <= now

\* The scan never returns a date of a later year or of a year more than
\* two years back.
ScanWithinYears ==
  source = "FDA" =>
     \A u \in FetchedURLs :
        LET found == FDA_regex_scan(Page(u).text_dates, now) IN
        found # None =>
          /\ YearOf(found[1], 2024) <= YearOf(now, 2024)
          /\ found[1] >= OldestAccepted


\* ========================================================== date parsing
\* The second specification: a valid date is drawn, written in one of the
\* formats of WHO's parser (or the listing shows a text that is no date),
\* and the parser is applied to the text.
RoundTripYears == {2023, 2024}

ValidDates ==
  {dt \in [year : RoundTripYears, month : 1..12, day : 1..31] :
     dt.day <= DaysInMonth(dt.year, dt.month)}

\* Texts of a listing that are no date.
OtherTexts == {<<>>, unknown_text, <<"n", "/", "a">>}

DateInit ==
  /\ source = "WHO" /\ now = 64
  /\ listing_status = "ok" /\ listing = <<>>
  /\ engine = "ok" /\ wait = "ok"
  /\ pc = "idle" /\ days_back = 7 /\ cands = <<>> /\ i = 1
  /\ output = <<>> /\ trace = <<>> /\ processed = 0
  /\ ran = {} /\ retained = [d \in Days |-> {}]
  /\ result = "none" /\ driver = "none" /\ quits = 0
  /\ \E dt \in ValidDates :
        roundtrip = [NoRoundTrip EXCEPT !.stage = "drawn", !.date = dt]

pipeline == <<content, pc, days_back, cands, i, output, trace, processed, ran,
              retained, result, browser>>

\* The date is written with a format of the parser.
Format(k) ==
  /\ roundtrip.stage = "drawn"
  /\ roundtrip' = [roundtrip EXCEPT !.stage = "formatted",
                                    !.fmt = date_formats[k],
                                    !.date_text = strftime(roundtrip.date, date_formats[k])]
  /\ UNCHANGED pipeline

\* The listing shows a text that is no date.
ShowOther(text) ==
  /\ roundtrip.stage = "drawn"
  /\ roundtrip' = [roundtrip EXCEPT !.stage = "formatted", !.date_text = text]
  /\ UNCHANGED pipeline

\* published_at = self._parse_date_from_text(date_text)
Parse ==
  /\ roundtrip.stage = "formatted"
  /\ roundtrip' = [roundtrip EXCEPT !.stage = "parsed",
                     !.parsed_date = WHO_parse_date_from_text(roundtrip.date_text)]
  /\ UNCHANGED pipeline

DateNext ==
  \/ \E k \in 1..Len(date_formats) : Format(k)
  \/ \E text \in OtherTexts : ShowOther(text)
  \/ Parse

DateSpec == DateInit /\ [][DateNext]_vars

\* C25: for every format of WHO's parser and every valid date, parsing the
\* date written in that format yields the date.
C25_DateRoundTrip ==
  (roundtrip.stage = "parsed" /\ roundtrip.fmt # <<>>) =>
     roundtrip.parsed_date
       = Some(DayOf(roundtrip.date.year, roundtrip.date.month, roundtrip.date.day))

\* The round trip for the formats that no earlier format of the list can
\* read differently: all but month/day/year with slashes or dashes.
UnambiguousRoundTrip ==
  (roundtrip.stage = "parsed" /\ roundtrip.fmt # <<>>
     /\ roundtrip.fmt \notin {date_formats[4], date_formats[6]}) =>
     roundtrip.parsed_date
       = Some(DayOf(roundtrip.date.year, roundtrip.date.month, roundtrip.date.day))

\* A text that is no date parses to None.
OtherTextsUnparsed ==
  (roundtrip.stage = "parsed" /\ roundtrip.fmt = <<>>) => roundtrip.parsed_date = None
====
